---- MODULE Spec2Model ----
(***************************************************************************)
(* Model of the fit-pc builder: the build session (BuilderView), the       *)
(* placement composer (BuilderCanvas Scene.componentTransforms and         *)
(* getRamTransforms) and the catalog-level compatibility resolver          *)
(* (handlers.GetCompatibleParts / FilterBySocketCompatibility).            *)
(*                                                                         *)
(* Numbers.  Anchor positions are centimetres of the part's model space.   *)
(* Scene positions are kept in fixed point, in hundredths of a scene unit, *)
(* so the factor 0.1 (scene units per cm) is 10 hundredths per cm and the  *)
(* literal (0, 1.5, 0) is <<0, 150, 0>>.  Euler angles are kept in quarter *)
(* turns (pi/2 = 1); they are added as plain numbers, as the code adds     *)
(* them, and only the rotation of a vector reduces them modulo 4.          *)
(***************************************************************************)
EXTENDS Integers, Sequences, FiniteSets, TLC

\* An optional value (undefined / null in the source) is a sequence of at most
\* one element: None is the absent value, Some(v) holds v, o[1] reads it.
None == <<>>

Some(v) == <<v>>

\* ------------------------------------------------------------------------
\* Vectors and Euler rotation
\* ------------------------------------------------------------------------

\* const SCALE_FACTOR = 0.1, in hundredths of a scene unit per centimetre
SCALE_FACTOR == 10

\* Math.PI / 2, in quarter turns
HALF_PI == 1

Vector3(x, y, z) == <<x, y, z>>

Euler(x, y, z) == <<x, y, z>>

VAdd(a, b) == <<a[1] + b[1], a[2] + b[2], a[3] + b[3]>>

VSub(a, b) == <<a[1] - b[1], a[2] - b[2], a[3] - b[3]>>

\* new THREE.Vector3(p[0] * SCALE_FACTOR, p[1] * SCALE_FACTOR, p[2] * SCALE_FACTOR)
Scaled(p) == <<p[1] * SCALE_FACTOR, p[2] * SCALE_FACTOR, p[3] * SCALE_FACTOR>>

RotX(v, k) ==
    CASE k % 4 = 0 -> v
      [] k % 4 = 1 -> <<v[1], 0 - v[3], v[2]>>
      [] k % 4 = 2 -> <<v[1], 0 - v[2], 0 - v[3]>>
      [] k % 4 = 3 -> <<v[1], v[3], 0 - v[2]>>

RotY(v, k) ==
    CASE k % 4 = 0 -> v
      [] k % 4 = 1 -> <<v[3], v[2], 0 - v[1]>>
      [] k % 4 = 2 -> <<0 - v[1], v[2], 0 - v[3]>>
      [] k % 4 = 3 -> <<0 - v[3], v[2], v[1]>>

RotZ(v, k) ==
    CASE k % 4 = 0 -> v
      [] k % 4 = 1 -> <<0 - v[2], v[1], v[3]>>
      [] k % 4 = 2 -> <<0 - v[1], 0 - v[2], v[3]>>
      [] k % 4 = 3 -> <<v[2], 0 - v[1], v[3]>>

\* THREE.Vector3.applyEuler with the default order 'XYZ': R = Rx * Ry * Rz
applyEuler(v, e) == RotX(RotY(RotZ(v, e[3]), e[2]), e[1])

\* { position: new THREE.Vector3(), rotation: new THREE.Euler() }
IdentityTransform == [position |-> Vector3(0, 0, 0), rotation |-> Euler(0, 0, 0)]

\* ------------------------------------------------------------------------
\* Anchor type catalog
\* ------------------------------------------------------------------------

Info(label, direction, axis, compatible, category) ==
    [label |-> label, direction |-> direction, defaultAxis |-> axis,
     defaultCompatible |-> compatible, category |-> category]

ANCHOR_TYPE_INFO ==
    [cpu_socket      |-> Info("CPU Socket", "output", "Y_NEG", <<"cpu_bottom">>, "motherboard"),
     ram_slot        |-> Info("RAM Slot", "output", "Y_NEG", <<"ram_edge">>, "motherboard"),
     pcie_x16        |-> Info("PCIe x16 Slot", "output", "Z_NEG", <<"pcie_edge">>, "motherboard"),
     pcie_x4         |-> Info("PCIe x4 Slot", "output", "Z_NEG", <<"pcie_edge">>, "motherboard"),
     pcie_x1         |-> Info("PCIe x1 Slot", "output", "Z_NEG", <<"pcie_edge">>, "motherboard"),
     m2_slot         |-> Info("M.2 Slot", "output", "Z_NEG", <<"m2_edge">>, "motherboard"),
     sata_port       |-> Info("SATA Port", "output", "Z_NEG", <<"sata_plug">>, "motherboard"),
     cooler_plate    |-> Info("Cooler Plate", "output", "Y_POS", <<"cooler_base">>, "cpu"),
     mobo_mount_area |-> Info("Motherboard Mount Area", "output", "Y_POS", <<"mobo_backplate">>, "case"),
     psu_bay         |-> Info("PSU Bay", "output", "Z_NEG", <<"psu_mount">>, "case"),
     fan_mount_120   |-> Info("Fan Mount 120mm", "output", "Z_NEG", <<"fan_mount">>, "case"),
     fan_mount_140   |-> Info("Fan Mount 140mm", "output", "Z_NEG", <<"fan_mount">>, "case"),
     drive_bay_25    |-> Info("2.5\" Drive Bay", "output", "Z_NEG", <<"drive_mount">>, "case"),
     drive_bay_35    |-> Info("3.5\" Drive Bay", "output", "Z_NEG", <<"drive_mount">>, "case"),
     cpu_bottom      |-> Info("CPU Contact", "input", "Y_NEG", <<"cpu_socket">>, "component"),
     cooler_base     |-> Info("Cooler Base", "input", "Y_POS", <<"cooler_plate">>, "component"),
     ram_edge        |-> Info("RAM Edge", "input", "Y_NEG", <<"ram_slot">>, "component"),
     pcie_edge       |-> Info("PCIe Edge", "input", "Z_NEG", <<"pcie_x16", "pcie_x4", "pcie_x1">>, "component"),
     m2_edge         |-> Info("M.2 Edge", "input", "Z_NEG", <<"m2_slot">>, "component"),
     sata_plug       |-> Info("SATA Plug", "input", "Z_NEG", <<"sata_port">>, "component"),
     mobo_backplate  |-> Info("Motherboard Backplate", "input", "Y_NEG", <<"mobo_mount_area">>, "component"),
     psu_mount       |-> Info("PSU Mount", "input", "Z_NEG", <<"psu_bay">>, "component"),
     fan_mount       |-> Info("Fan Mount", "input", "Z_NEG", <<"fan_mount_120", "fan_mount_140">>, "component"),
     drive_mount     |-> Info("Drive Mount", "input", "Z_NEG", <<"drive_bay_25", "drive_bay_35">>, "component")]

\* ------------------------------------------------------------------------
\* Persisted anchors and their conversion
\* ------------------------------------------------------------------------

XYZ(x, y, z) == [x |-> x, y |-> y, z |-> z]

\* interface ApiAnchor
ApiAnchor(name, label, position, rotation, compatible) ==
    [name |-> name, label |-> label, position |-> position, rotation |-> rotation,
     direction |-> ANCHOR_TYPE_INFO[name].direction,
     connection_axis |-> ANCHOR_TYPE_INFO[name].defaultAxis,
     compatible_types |-> compatible]

\* an anchor as the editor first creates it, with the catalog's compatible types
DefaultAnchor(name, label, position, rotation) ==
    ApiAnchor(name, label, position, rotation, ANCHOR_TYPE_INFO[name].defaultCompatible)

convertApiAnchor(apiAnchor) ==
    [id |-> apiAnchor.label,
     type |-> apiAnchor.name,
     label |-> apiAnchor.label,
     position |-> <<apiAnchor.position.x, apiAnchor.position.y, apiAnchor.position.z>>,
     rotation |-> <<apiAnchor.rotation.x, apiAnchor.rotation.y, apiAnchor.rotation.z>>,
     direction |-> apiAnchor.direction,
     connectionAxis |-> apiAnchor.connection_axis,
     compatibleWith |-> apiAnchor.compatible_types]

convertApiAnchors(apiAnchors) ==
    IF apiAnchors = None THEN <<>>
    ELSE [i \in 1..Len(apiAnchors[1]) |-> convertApiAnchor(apiAnchors[1][i])]

Range(s) == {s[i] : i \in 1..Len(s)}

\* Array.prototype.find over the anchors whose type is in types: first match or None
FindType(anchors, types) ==
    LET hits == {i \in 1..Len(anchors) : anchors[i].type \in types}
    IN  IF hits = {} THEN None
        ELSE Some(anchors[CHOOSE i \in hits : \A j \in hits : i <= j])

\* ------------------------------------------------------------------------
\* Placement composer: Scene.componentTransforms
\* ------------------------------------------------------------------------

\* transforms[key] = value on a Record<string, ComponentTransform>
Put(transforms, key, value) ==
    [k \in (DOMAIN transforms) \cup {key} |-> IF k = key THEN value ELSE transforms[k]]

\* transforms[key] || { position: new THREE.Vector3(), rotation: new THREE.Euler() }
Get(transforms, key) ==
    IF key \in DOMAIN transforms THEN transforms[key] ELSE IdentityTransform

\* component.anchor_points || []
AnchorsOf(component) == convertApiAnchors(component[1].anchor_points)

\* Case is always at origin with no rotation
CaseBlock == [case |-> [position |-> Vector3(0, 0, 0), rotation |-> Euler(0, 0, 0)]]

MotherboardBlock(transforms, sel) ==
    LET caseComponent == sel["case"]
        moboComponent == sel["motherboard"]
    IN  IF caseComponent # None /\ moboComponent # None
        THEN LET mountArea     == FindType(AnchorsOf(caseComponent), {"mobo_mount_area"})
                 moboBackplate == FindType(AnchorsOf(moboComponent), {"mobo_backplate"})
             IN  IF mountArea # None
                 THEN LET mountPos == Scaled(mountArea[1].position)
                      IN  Put(transforms, "motherboard",
                              [position |-> IF moboBackplate # None
                                            THEN VSub(mountPos, Scaled(moboBackplate[1].position))
                                            ELSE mountPos,
                               rotation |-> Euler(mountArea[1].rotation[1] + HALF_PI,
                                                  mountArea[1].rotation[2],
                                                  mountArea[1].rotation[3])])
                 ELSE Put(transforms, "motherboard",
                          [position |-> Vector3(0, 100, 0), rotation |-> Euler(0, 0, 0)])
        ELSE transforms

CpuBlock(transforms, sel) ==
    LET moboComponent == sel["motherboard"]
        cpuComponent  == sel["cpu"]
    IN  IF moboComponent # None /\ cpuComponent # None
        THEN LET socket    == FindType(AnchorsOf(moboComponent), {"cpu_socket"})
                 cpuBottom == FindType(AnchorsOf(cpuComponent), {"cpu_bottom"})
             IN  IF socket # None
                 THEN LET moboTransform == Get(transforms, "motherboard")
                          socketOffset  == applyEuler(Scaled(socket[1].position), moboTransform.rotation)
                          cpuPos        == VAdd(moboTransform.position, socketOffset)
                      IN  Put(transforms, "cpu",
                              [position |-> IF cpuBottom # None
                                            THEN VSub(cpuPos, applyEuler(Scaled(cpuBottom[1].position),
                                                                         moboTransform.rotation))
                                            ELSE cpuPos,
                               rotation |-> moboTransform.rotation])
                 ELSE Put(transforms, "cpu",
                          [position |-> Vector3(0, 150, 0), rotation |-> Euler(0, 0, 0)])
        ELSE transforms

CoolerBlock(transforms, sel) ==
    LET cpuComponent    == sel["cpu"]
        coolerComponent == sel["cpu_cooler"]
    IN  IF cpuComponent # None /\ coolerComponent # None
        THEN LET coolerPlate  == FindType(AnchorsOf(cpuComponent), {"cooler_plate"})
                 coolerBase   == FindType(AnchorsOf(coolerComponent), {"cooler_base"})
                 cpuTransform == Get(transforms, "cpu")
             IN  IF coolerPlate # None
                 THEN LET coolerRotation == Euler(cpuTransform.rotation[1] + coolerPlate[1].rotation[1],
                                                  cpuTransform.rotation[2] + coolerPlate[1].rotation[2],
                                                  cpuTransform.rotation[3] + coolerPlate[1].rotation[3])
                          plateOffset    == applyEuler(Scaled(coolerPlate[1].position), cpuTransform.rotation)
                          coolerPos      == VAdd(cpuTransform.position, plateOffset)
                      IN  Put(transforms, "cpu_cooler",
                              [position |-> IF coolerBase # None
                                            THEN VSub(coolerPos, applyEuler(Scaled(coolerBase[1].position),
                                                                            coolerRotation))
                                            ELSE coolerPos,
                               rotation |-> coolerRotation])
                 ELSE Put(transforms, "cpu_cooler",
                          [position |-> Vector3(cpuTransform.position[1],
                                                cpuTransform.position[2] + 50,
                                                cpuTransform.position[3]),
                           rotation |-> cpuTransform.rotation])
        ELSE transforms

GpuBlock(transforms, sel) ==
    LET moboComponent == sel["motherboard"]
        gpuComponent  == sel["gpu"]
    IN  IF moboComponent # None /\ gpuComponent # None
        THEN LET pcie     == FindType(AnchorsOf(moboComponent), {"pcie_x16"})
                 pcieEdge == FindType(AnchorsOf(gpuComponent), {"pcie_edge"})
             IN  IF pcie # None
                 THEN LET moboTransform == Get(transforms, "motherboard")
                          pcieOffset    == applyEuler(Scaled(pcie[1].position), moboTransform.rotation)
                          gpuPos        == VAdd(moboTransform.position, pcieOffset)
                      IN  Put(transforms, "gpu",
                              [position |-> IF pcieEdge # None
                                            THEN VSub(gpuPos, applyEuler(Scaled(pcieEdge[1].position),
                                                                         moboTransform.rotation))
                                            ELSE gpuPos,
                               rotation |-> Euler(moboTransform.rotation[1] + pcie[1].rotation[1],
                                                  moboTransform.rotation[2] + pcie[1].rotation[2],
                                                  moboTransform.rotation[3] + pcie[1].rotation[3])])
                 ELSE Put(transforms, "gpu",
                          [position |-> Vector3(0, 0, 200), rotation |-> Euler(0, 0, 0)])
        ELSE transforms

PsuBlock(transforms, sel) ==
    LET caseComponent == sel["case"]
        psuComponent  == sel["psu"]
    IN  IF caseComponent # None /\ psuComponent # None
        THEN LET psuBay   == FindType(AnchorsOf(caseComponent), {"psu_bay"})
                 psuMount == FindType(AnchorsOf(psuComponent), {"psu_mount"})
             IN  IF psuBay # None
                 THEN LET psuPos == Scaled(psuBay[1].position)
                      IN  Put(transforms, "psu",
                              [position |-> IF psuMount # None
                                            THEN VSub(psuPos, Scaled(psuMount[1].position))
                                            ELSE psuPos,
                               rotation |-> Euler(psuBay[1].rotation[1], psuBay[1].rotation[2],
                                                  psuBay[1].rotation[3])])
                 ELSE Put(transforms, "psu",
                          [position |-> Vector3(0, 0 - 200, 0), rotation |-> Euler(0, 0, 0)])
        ELSE transforms

\* a drive bay lookup that knows the 2.5" bays only
FindDriveBay25Only(caseAnchors) == FindType(caseAnchors, {"drive_bay_25"})

\* caseAnchors.find(a => a.type === "drive_bay_25" || a.type === "drive_bay_35")
FindDriveBay(caseAnchors) == FindType(caseAnchors, {"drive_bay_25", "drive_bay_35"})

StorageBlock(transforms, sel) ==
    LET moboComponent    == sel["motherboard"]
        caseComponent    == sel["case"]
        storageComponent == sel["storage"]
    IN  IF storageComponent # None
        THEN LET moboAnchors == IF moboComponent # None THEN AnchorsOf(moboComponent) ELSE <<>>
                 caseAnchors == IF caseComponent # None THEN AnchorsOf(caseComponent) ELSE <<>>
                 m2Slot      == FindType(moboAnchors, {"m2_slot"})
                 m2Edge      == FindType(AnchorsOf(storageComponent), {"m2_edge"})
             IN  IF m2Slot # None /\ moboComponent # None
                 THEN LET moboTransform == Get(transforms, "motherboard")
                          slotOffset    == applyEuler(Scaled(m2Slot[1].position), moboTransform.rotation)
                          storagePos    == VAdd(moboTransform.position, slotOffset)
                      IN  Put(transforms, "storage",
                              [position |-> IF m2Edge # None
                                            THEN VSub(storagePos, applyEuler(Scaled(m2Edge[1].position),
                                                                              moboTransform.rotation))
                                            ELSE storagePos,
                               rotation |-> moboTransform.rotation])
                 ELSE LET driveBay == FindDriveBay(caseAnchors)
                      IN  IF driveBay # None
                          THEN Put(transforms, "storage",
                                   [position |-> Scaled(driveBay[1].position),
                                    rotation |-> Euler(driveBay[1].rotation[1], driveBay[1].rotation[2],
                                                       driveBay[1].rotation[3])])
                          ELSE Put(transforms, "storage",
                                   [position |-> Vector3(0 - 200, 0, 0), rotation |-> Euler(0, 0, 0)])
        ELSE transforms

\* the useMemo body: the blocks run in this order on one transforms record
componentTransforms(sel) ==
    LET afterMobo   == MotherboardBlock(CaseBlock, sel)
        afterCpu    == CpuBlock(afterMobo, sel)
        afterCooler == CoolerBlock(afterCpu, sel)
        afterGpu    == GpuBlock(afterCooler, sel)
        afterPsu    == PsuBlock(afterGpu, sel)
    IN  StorageBlock(afterPsu, sel)

\* ------------------------------------------------------------------------
\* RAM replication: getRamTransforms, and the transforms the scene renders
\* ------------------------------------------------------------------------

\* The labels of the catalog's RAM slots in the order of String.localeCompare
LabelOrder == <<"DIMM A1", "DIMM B1", "RAM Slot 1", "RAM Slot 2", "RAM Slot 3", "RAM Slot 4">>

\* a.label.localeCompare(b.label) < 0
localeCompareLess(a, b) ==
    LET rank(l) == CHOOSE i \in 1..Len(LabelOrder) : LabelOrder[i] = l
    IN  rank(a) < rank(b)

\* Array.prototype.sort with the label comparator (a stable sort)
SortByLabel(anchors) ==
    LET before(j, i) == \/ localeCompareLess(anchors[j].label, anchors[i].label)
                        \/ /\ ~localeCompareLess(anchors[i].label, anchors[j].label)
                           /\ j < i
        place(i) == 1 + Cardinality({j \in 1..Len(anchors) : before(j, i)})
    IN  [k \in 1..Len(anchors) |-> anchors[CHOOSE i \in 1..Len(anchors) : place(i) = k]]

IsRamSlot(a) == a.type = "ram_slot"

Min(a, b) == IF a < b THEN a ELSE b

\* the sorted ram_slot anchors of the motherboard, empty without anchor_points
RamSlots(moboComponent) ==
    IF moboComponent # None /\ moboComponent[1].anchor_points # None
    THEN SortByLabel(SelectSeq(AnchorsOf(moboComponent), IsRamSlot))
    ELSE <<>>

getRamTransforms(transforms, moboComponent, quantity) ==
    LET moboTransform == Get(transforms, "motherboard")
        ramSlots      == RamSlots(moboComponent)
        slotCount     == Min(quantity, Len(ramSlots))
    IN  [i \in 1..quantity |->
            IF i <= slotCount
            THEN [position |-> VAdd(moboTransform.position,
                                    applyEuler(Scaled(ramSlots[i].position), moboTransform.rotation)),
                  rotation |-> moboTransform.rotation]
            ELSE [position |-> VAdd(moboTransform.position,
                                    applyEuler(Vector3(150 + ((i - 1) * 30), 10, 0),
                                               moboTransform.rotation)),
                  rotation |-> moboTransform.rotation]]

\* component.quantity || 1
QuantityOf(component) ==
    IF component.quantity = None \/ component.quantity[1] = 0 THEN 1 ELSE component.quantity[1]

renderRamModules(transforms, sel) ==
    getRamTransforms(transforms, sel["motherboard"], QuantityOf(sel["ram"][1]))

\* a render step without the fallback for a step the composer left out
RenderTransformNoFallback(transforms, stepId, index) ==
    IF stepId \in DOMAIN transforms THEN <<transforms[stepId]>> ELSE <<>>

\* componentTransforms[component.stepId] || { (index * 2, 0, 0), (0, 0, 0) }
RenderTransform(transforms, stepId, index) ==
    IF stepId \in DOMAIN transforms
    THEN <<transforms[stepId]>>
    ELSE <<[position |-> Vector3(index * 200, 0, 0), rotation |-> Euler(0, 0, 0)]>>

\* The transforms at which the scene draws the selected component of a step,
\* given the memoized componentTransforms; index is the component's place in
\* selectedComponents.  One transform per RAM module, one for any other part.
ScenePlacements(transforms, sel, stepId, index) ==
    IF stepId = "ram"
    THEN renderRamModules(transforms, sel)
    ELSE RenderTransform(transforms, stepId, index)

\* ------------------------------------------------------------------------
\* JSON values as the browser sees them in technical_specs
\* ------------------------------------------------------------------------

\* A technical_specs object is a record from attribute names to the values
\* below; an attribute the object does not hold is outside its DOMAIN.
JsNumber(n) == [jsType |-> "number", value |-> n]

JsString(s) == [jsType |-> "string", value |-> s]

\* a JSON array of values
JsArray(elements) == [jsType |-> "array", value |-> elements]

JsNull == [jsType |-> "null"]

Undefined == [jsType |-> "undefined"]

\* NaN, the result of converting a string that is not a numeral
NaN == [jsType |-> "number", nan |-> TRUE]

IsJsValue(v) == "jsType" \in DOMAIN v

IsNaN(v) == "nan" \in DOMAIN v

\* typeof, with null and arrays told apart from other objects
JsType(v) == IF IsJsValue(v) THEN v.jsType ELSE "object"

\* a === b on primitives and on arrays told apart by their elements
StrictEqual(a, b) == JsType(a) = JsType(b) /\ ~IsNaN(a) /\ ~IsNaN(b) /\ a = b

\* object?.key
GetProp(object, key) ==
    IF IsJsValue(object) THEN Undefined
    ELSE IF key \in DOMAIN object THEN object[key]
    ELSE Undefined

\* ToBoolean: what an if or && makes of a value
Truthy(v) ==
    IF ~IsJsValue(v) THEN TRUE
    ELSE CASE v.jsType = "undefined" -> FALSE
           [] v.jsType = "null" -> FALSE
           [] v.jsType = "number" -> ~IsNaN(v) /\ v.value # 0
           [] v.jsType = "string" -> v.value # ""
           [] OTHER -> TRUE

\* a !== b
StrictNotEqual(a, b) == ~StrictEqual(a, b)

\* the numerals among the strings of the catalog, with the number each denotes
Numerals == [s \in {"300", "350"} |-> IF s = "300" THEN 300 ELSE 350]

\* ToNumber of a primitive
ToNumber(v) ==
    CASE v.jsType = "number" -> v
      [] v.jsType = "string" ->
            IF v.value = "" THEN JsNumber(0)
            ELSE IF v.value \in DOMAIN Numerals THEN JsNumber(Numerals[v.value])
            ELSE NaN
      [] v.jsType = "null" -> JsNumber(0)
      [] OTHER -> NaN

\* the order of the strings of the catalog by UTF-16 code units
StringOrder == <<"", "300", "350", "ATX", "ATX,mATX", "ITX", "mATX">>

StringGreater(a, b) ==
    \E i, j \in 1..Len(StringOrder) : StringOrder[i] = a /\ StringOrder[j] = b /\ i > j

\* a > b on primitives: two strings compare as strings, anything else as numbers
GreaterThan(a, b) ==
    IF a.jsType = "string" /\ b.jsType = "string"
    THEN StringGreater(a.value, b.value)
    ELSE LET x == ToNumber(a)
             y == ToNumber(b)
         IN  ~IsNaN(x) /\ ~IsNaN(y) /\ x.value > y.value

\* the substrings, among the strings of the catalog, of each string of the catalog
Substrings ==
    [s \in {StringOrder[i] : i \in 1..Len(StringOrder)} |->
        CASE s = "ATX,mATX" -> {"", "ATX", "mATX", "ATX,mATX"}
          [] s = "mATX" -> {"", "ATX", "mATX"}
          [] OTHER -> {"", s}]

\* ToString of a string or of a number the catalog has a numeral for
JsToString(v) ==
    IF v.jsType = "string" THEN v.value
    ELSE CHOOSE s \in DOMAIN Numerals : Numerals[s] = v.value

TypeError == [throws |-> "TypeError"]

\* receiver.includes(x): Array.prototype.includes on an array,
\* String.prototype.includes on a string; any other receiver has no such method
Includes(receiver, x) ==
    CASE receiver.jsType = "array" ->
            \E i \in 1..Len(receiver.value) : StrictEqual(receiver.value[i], x)
      [] receiver.jsType = "string" ->
            JsToString(x) \in Substrings[receiver.value]

HasIncludes(receiver) == IsJsValue(receiver) /\ receiver.jsType \in {"array", "string"}

\* ------------------------------------------------------------------------
\* The product catalog the builder selects from
\* ------------------------------------------------------------------------

\* the largest number of ram_slot anchors on a motherboard of the catalog
MaxSlots == 2

Product(id, category, anchor_points, technical_specs) ==
    [id |-> id, category |-> category, anchor_points |-> anchor_points,
     technical_specs |-> technical_specs]

CaseProducts ==
    { Product("case-1", "CASE",
              Some(<<DefaultAnchor("fan_mount_120", "Fan Mount 120mm 1", XYZ(0, 20, 9), XYZ(0, 0, 0)),
                     DefaultAnchor("mobo_mount_area", "Motherboard Mount Area 1", XYZ(0, 5, 0), XYZ(0, 0, 0)),
                     DefaultAnchor("psu_bay", "PSU Bay 1", XYZ(3, 0 - 20, 4), XYZ(0, 1, 0)),
                     DefaultAnchor("drive_bay_35", "3.5\" Drive Bay 1", XYZ(0 - 10, 2, 0), XYZ(0, 0, 1)),
                     DefaultAnchor("drive_bay_25", "2.5\" Drive Bay 1", XYZ(0 - 10, 6, 0), XYZ(0, 0, 0))>>),
              [supported_motherboards |-> JsArray(<<JsString("ATX"), JsString("mATX")>>),
               max_gpu_length_mm |-> JsNumber(300),
               max_cpu_cooler_height_mm |-> JsNumber(160)]),
      Product("case-2", "CASE",
              Some(<<ApiAnchor("mobo_mount_area", "Motherboard Mount Area 1", XYZ(2, 5, 1), XYZ(0, 1, 0), <<>>),
                     DefaultAnchor("drive_bay_25", "2.5\" Drive Bay 1", XYZ(8, 1, 0), XYZ(1, 0, 0))>>),
              [supported_motherboards |-> JsArray(<<JsString("ITX")>>),
               max_gpu_length_mm |-> JsNumber(400)]),
      Product("case-3", "CASE", None, [max_gpu_length_mm |-> JsNumber(300)]) }

\* the anchors of motherboard variant v other than its RAM slots
MoboBaseAnchors(v) ==
    CASE v = 0 ->
           <<DefaultAnchor("mobo_backplate", "Motherboard Backplate 1", XYZ(0, 0, 0), XYZ(0, 0, 0)),
             DefaultAnchor("cpu_socket", "CPU Socket 1", XYZ(2, 0, 0), XYZ(0, 0, 0)),
             DefaultAnchor("pcie_x16", "PCIe x16 Slot 1", XYZ(1, 0 - 3, 0), XYZ(0, 0, 0)),
             DefaultAnchor("m2_slot", "M.2 Slot 1", XYZ(4, 1, 0), XYZ(0, 0, 0))>>
      [] v = 1 ->
           <<ApiAnchor("cpu_socket", "CPU Socket 1", XYZ(2, 0, 1), XYZ(0, 1, 0), <<"cpu", "LGA1700">>),
             ApiAnchor("mobo_backplate", "Motherboard Backplate 1", XYZ(1, 2, 0), XYZ(0, 0, 0), <<>>),
             DefaultAnchor("pcie_x4", "PCIe x4 Slot 1", XYZ(3, 0 - 6, 0), XYZ(0, 0, 0)),
             DefaultAnchor("pcie_x16", "PCIe x16 Slot 1", XYZ(3, 0 - 3, 1), XYZ(0, 0, 1)),
             DefaultAnchor("m2_slot", "M.2 Slot 1", XYZ(4, 1, 2), XYZ(1, 0, 0))>>
      [] OTHER ->
           <<DefaultAnchor("sata_port", "SATA Port 1", XYZ(9, 0, 3), XYZ(0, 0, 0))>>

\* the n RAM slots of motherboard variant v, listed from the last label to the first
MoboRamSlots(v, n) ==
    [k \in 1..n |->
        LET i == n + 1 - k
        IN  DefaultAnchor("ram_slot", LabelOrder[2 + i],
                          IF v = 2 THEN XYZ(15 + (3 * i), 1, 0) ELSE XYZ(4 + i, 0, 2 * i),
                          IF v = 1 THEN XYZ(0, 1, 0) ELSE XYZ(0, 0, 0))]

MoboSpecs(v) ==
    CASE v = 0 -> [socket |-> JsString("LGA1700"), ram_type |-> JsString("DDR5"),
                 form_factor |-> JsString("ATX")]
      [] v = 1 -> [socket |-> JsString("AM5"), ram_type |-> JsString("DDR4"),
                 form_factor |-> JsString("ITX")]
      [] OTHER -> [form_factor |-> JsString("mATX")]

MoboId(n) == <<"mobo-0", "mobo-1", "mobo-2", "mobo-3", "mobo-4">>[n + 1]

MotherboardProducts ==
    { Product(MoboId(n), "MOTHERBOARD",
              Some(MoboBaseAnchors((n + 1) % 3) \o MoboRamSlots((n + 1) % 3, n)),
              MoboSpecs((n + 1) % 3)) : n \in 0..MaxSlots }
    \cup { Product("mobo-x", "MOTHERBOARD", None, [socket |-> JsString("LGA1700")]) }

CpuProducts ==
    { Product("cpu-1", "CPU",
              Some(<<DefaultAnchor("cooler_plate", "Cooler Plate 1", XYZ(0, 1, 1), XYZ(0, 0, 1)),
                     DefaultAnchor("cpu_bottom", "CPU Contact 1", XYZ(1, 0, 2), XYZ(0, 0, 0))>>),
              [socket |-> JsString("LGA1700")]),
      Product("cpu-2", "CPU",
              Some(<<ApiAnchor("cpu_bottom", "CPU Contact 1", XYZ(0, 0, 0), XYZ(0, 0, 0), <<>>)>>),
              [cores |-> JsNumber(8)]) }

CoolerProducts ==
    { Product("cooler-1", "CPU_COOLER",
              Some(<<DefaultAnchor("cooler_base", "Cooler Base 1", XYZ(0, 2, 1), XYZ(0, 0, 0))>>),
              [height_mm |-> JsNumber(150)]),
      Product("cooler-2", "CPU_COOLER", None, [height_mm |-> JsNumber(170)]) }

RamProducts ==
    { Product("ram-1", "RAM",
              Some(<<DefaultAnchor("ram_edge", "RAM Edge 1", XYZ(0, 1, 0), XYZ(0, 0, 0))>>),
              [type |-> JsString("DDR5")]) }

GpuProducts ==
    { Product("gpu-1", "GPU",
              Some(<<DefaultAnchor("pcie_edge", "PCIe Edge 1", XYZ(1, 0, 2), XYZ(0, 0, 0))>>),
              [length_mm |-> JsNumber(350)]),
      Product("gpu-2", "GPU", None, [length_mm |-> JsNumber(300)]) }

StorageProducts ==
    { Product("ssd-1", "STORAGE",
              Some(<<DefaultAnchor("m2_edge", "M.2 Edge 1", XYZ(1, 0, 0), XYZ(0, 0, 0))>>),
              [interface |-> JsString("M.2")]),
      Product("hdd-1", "STORAGE",
              Some(<<DefaultAnchor("sata_plug", "SATA Plug 1", XYZ(0, 0, 1), XYZ(0, 0, 0))>>),
              [interface |-> JsString("SATA")]) }

PsuProducts ==
    { Product("psu-1", "PSU",
              Some(<<DefaultAnchor("psu_mount", "PSU Mount 1", XYZ(0, 1, 2), XYZ(0, 0, 0))>>),
              [wattage |-> JsNumber(750)]),
      Product("psu-2", "PSU", Some(<<>>), [wattage |-> JsNumber(550)]) }

Catalog ==
    CaseProducts \cup MotherboardProducts \cup CpuProducts \cup CoolerProducts
        \cup RamProducts \cup GpuProducts \cup StorageProducts \cup PsuProducts

\* GET /api/products?category=...: the candidates offered on a build step
ProductsOf(category) == {p \in Catalog : p.category = category}

\* ------------------------------------------------------------------------
\* The build session: BuilderView
\* ------------------------------------------------------------------------

Step(id, category, required) == [id |-> id, category |-> category, required |-> required]

BUILD_STEPS ==
    <<Step("case", "CASE", TRUE),
      Step("motherboard", "MOTHERBOARD", TRUE),
      Step("cpu", "CPU", TRUE),
      Step("cpu_cooler", "CPU_COOLER", TRUE),
      Step("ram", "RAM", TRUE),
      Step("gpu", "GPU", FALSE),
      Step("storage", "STORAGE", TRUE),
      Step("psu", "PSU", TRUE)>>

StepIds == {BUILD_STEPS[i].id : i \in 1..Len(BUILD_STEPS)}

VARIABLES
    buildState,         \* BuildState: step id -> the selected component, None when empty
    currentStepIndex,   \* index into BUILD_STEPS, from 0
    products,           \* the backend's products table, in ID order (ID = index)
    lastCall,           \* the last resolver call of the backend and its result, or None
    currentBuildId,     \* id of the saved build the session was loaded from, or None
    currentBuildName,   \* its name, or None
    anchors,            \* useAnchorStore: the anchor list of the part being authored
    selectedAnchorId,   \* useAnchorStore: id of the selected anchor, or None
    uuidCount,          \* the number of ids uuidv4 has generated so far
    formAnchors,        \* ProductForm: the anchors state of the product being edited
    persistedAnchors,   \* the persisted anchor_points of that product, None before its creation
    builds,             \* backend: the rows of the builds table, in the order of their ids
    saveDialogOpen,     \* BuilderView: whether the save dialog is open
    name,               \* SaveBuildDialog: the text of the name field
    saving,             \* SaveBuildDialog: the saving flag
    saveRequests,       \* the save requests sent whose response has not arrived
    selectorProducts,   \* ComponentSelector: the products state, the candidates listed
    loading,            \* ComponentSelector: the loading flag
    fetches,            \* the categories of the product fetches whose response has not arrived
    fetchedCategory     \* the category the fetch effect last ran for, None before the first run

sessionVars == <<currentBuildId, currentBuildName>>

builderVars == <<buildState, currentStepIndex, sessionVars>>

backendVars == <<products, lastCall, builds>>

storeVars == <<anchors, selectedAnchorId, uuidCount>>

\* what the actions of the builder, of the backend and of the store leave alone
formVars == <<formAnchors, persistedAnchors>>

dialogVars == <<saveDialogOpen, name, saving, saveRequests>>

selectorVars == <<selectorProducts, loading, fetches, fetchedCategory>>

outsideBuilder == <<backendVars, storeVars, formVars, dialogVars, selectorVars>>

outsideBackend == <<builderVars, storeVars, formVars, dialogVars, selectorVars>>

outsideStore == <<builderVars, backendVars, formVars, dialogVars, selectorVars>>

outsideForm == <<builderVars, backendVars, storeVars, dialogVars, selectorVars>>

vars == <<buildState, currentStepIndex, products, lastCall, currentBuildId, currentBuildName,
          anchors, selectedAnchorId, uuidCount, formAnchors, persistedAnchors, builds,
          saveDialogOpen, name, saving, saveRequests,
          selectorProducts, loading, fetches, fetchedCategory>>

currentStep == BUILD_STEPS[currentStepIndex + 1]

isStepComplete(stepId) == buildState[stepId] # None

canProceed == isStepComplete(currentStep.id) \/ ~currentStep.required

\* the object ComponentSelector passes to onSelect
SelectedComponent(product, category) ==
    [id |-> product.id, category |-> product.category,
     anchor_points |-> product.anchor_points,
     technical_specs |-> product.technical_specs,
     quantity |-> IF category = "RAM" THEN Some(1) ELSE None]

\* anchor.type of a persisted anchor, which carries its type in the name field
ApiAnchorIsType(anchor, type) == "type" \in DOMAIN anchor /\ anchor["type"] = type

getMaxRamSlots ==
    IF buildState["motherboard"] = None \/ buildState["motherboard"][1].anchor_points = None
    THEN 4
    ELSE LET anchor_points == buildState["motherboard"][1].anchor_points[1]
             ramSlots == {i \in 1..Len(anchor_points) : ApiAnchorIsType(anchor_points[i], "ram_slot")}
         IN  IF Cardinality(ramSlots) = 0 THEN 4 ELSE Cardinality(ramSlots)

\* SaveBuildDialog of a new session: closed, useState("") and useState(false)
InitDialog ==
    /\ saveDialogOpen = FALSE
    /\ name = ""
    /\ saving = FALSE
    /\ saveRequests = <<>>

\* ComponentSelector at its mount: useState([]) and useState(false), the effect not yet run
InitSelector ==
    /\ selectorProducts = {}
    /\ loading = FALSE
    /\ fetches = <<>>
    /\ fetchedCategory = None

Init ==
    /\ buildState = [s \in StepIds |-> None]
    /\ currentStepIndex = 0
    /\ products = <<>>
    /\ lastCall = None
    /\ currentBuildId = None
    /\ currentBuildName = None
    /\ anchors = <<>>
    /\ selectedAnchorId = None
    /\ uuidCount = 0
    /\ formAnchors = <<>>
    /\ persistedAnchors = None
    /\ builds = <<>>
    /\ InitDialog
    /\ InitSelector

\* Next button, and Skip on an optional empty step
handleNext ==
    /\ \/ canProceed
       \/ ~currentStep.required /\ buildState[currentStep.id] = None
    /\ currentStepIndex < Len(BUILD_STEPS) - 1
    /\ currentStepIndex' = currentStepIndex + 1
    /\ UNCHANGED <<buildState, sessionVars, outsideBuilder>>

handlePrevious ==
    /\ currentStepIndex > 0
    /\ currentStepIndex' = currentStepIndex - 1
    /\ UNCHANGED <<buildState, sessionVars, outsideBuilder>>

\* a click on a step of the progress list
setCurrentStepIndex ==
    \E index \in 0..(Len(BUILD_STEPS) - 1) :
        /\ index # currentStepIndex
        /\ currentStepIndex' = index
        /\ UNCHANGED <<buildState, sessionVars, outsideBuilder>>

\* a selection that clears every other step
handleSelectClearingOthers ==
    \E product \in ProductsOf(currentStep.category) :
        /\ buildState' = [s \in StepIds |->
                             IF s = currentStep.id
                             THEN Some(SelectedComponent(product, currentStep.category))
                             ELSE None]
        /\ UNCHANGED <<currentStepIndex, sessionVars, outsideBuilder>>

\* a click on a candidate of the current step; the list shown is taken to be the
\* one fetched for the current step's category
handleSelectComponent ==
    \E product \in ProductsOf(currentStep.category) :
        /\ buildState' = [buildState EXCEPT
                             ![currentStep.id] = Some(SelectedComponent(product, currentStep.category))]
        /\ UNCHANGED <<currentStepIndex, sessionVars, outsideBuilder>>

\* handleSelectComponent with the component onSelect passes
handleSelectComponentCall(component) ==
    /\ buildState' = [buildState EXCEPT ![currentStep.id] = Some(component)]
    /\ UNCHANGED <<currentStepIndex, sessionVars>>

\* the X button of the selected component
handleRemoveComponent ==
    /\ buildState[currentStep.id] # None
    /\ buildState' = [buildState EXCEPT ![currentStep.id] = None]
    /\ UNCHANGED <<currentStepIndex, sessionVars, outsideBuilder>>

\* the - and + buttons of the RAM quantity selector
handleUpdateRamQuantity ==
    /\ currentStep.category = "RAM"
    /\ buildState[currentStep.id] # None
    /\ buildState["ram"] # None
    /\ LET current == QuantityOf(buildState[currentStep.id][1])
       IN  \E quantity \in {current - 1, current + 1} :
               /\ quantity = current - 1 => current > 1
               /\ quantity = current + 1 => current < getMaxRamSlots
               /\ buildState' = [buildState EXCEPT !["ram"] = Some([@[1] EXCEPT !.quantity = Some(quantity)])]
    /\ UNCHANGED <<currentStepIndex, sessionVars, outsideBuilder>>

Next ==
    \/ handleNext
    \/ handlePrevious
    \/ setCurrentStepIndex
    \/ handleSelectComponent
    \/ handleRemoveComponent
    \/ handleUpdateRamQuantity

Spec == Init /\ [][Next]_vars

\* the entries of selectedComponents: the steps holding a component
SelectedSteps == {s \in StepIds : buildState[s] # None}

TypeOK ==
    /\ currentStepIndex \in 0..(Len(BUILD_STEPS) - 1)
    /\ DOMAIN buildState = StepIds

\* ------------------------------------------------------------------------
\* Properties of the placement composer
\* ------------------------------------------------------------------------

\* the chain edges (parentStep.parentType -> childStep.childType) of the composer
Edge(parentStep, parentType, childStep, childType) ==
    [parentStep |-> parentStep, parentType |-> parentType,
     childStep |-> childStep, childType |-> childType]

CaseMoboEdge == Edge("case", "mobo_mount_area", "motherboard", "mobo_backplate")

MoboCpuEdge == Edge("motherboard", "cpu_socket", "cpu", "cpu_bottom")

CpuCoolerEdge == Edge("cpu", "cooler_plate", "cpu_cooler", "cooler_base")

MoboGpuEdge == Edge("motherboard", "pcie_x16", "gpu", "pcie_edge")

CasePsuEdge == Edge("case", "psu_bay", "psu", "psu_mount")

MoboStorageEdge == Edge("motherboard", "m2_slot", "storage", "m2_edge")

\* the edges whose child falls back when the parent anchor is missing
FallbackEdges == {CaseMoboEdge, MoboCpuEdge, CpuCoolerEdge, MoboGpuEdge, CasePsuEdge}

ChainEdges == FallbackEdges \cup {MoboStorageEdge}

BothSelected(e) == buildState[e.parentStep] # None /\ buildState[e.childStep] # None

ParentAnchor(e) == FindType(AnchorsOf(buildState[e.parentStep]), {e.parentType})

ChildAnchor(e) == FindType(AnchorsOf(buildState[e.childStep]), {e.childType})

\* the edge is composed through its parent anchor
Attached(e) == BothSelected(e) /\ ParentAnchor(e) # None

\* the parent anchor of the edge is missing
Detached(e) == BothSelected(e) /\ ParentAnchor(e) = None

Transforms == componentTransforms(buildState)

\* the world transform the composer reads for the parent of an edge
ParentWorld(e) == Get(Transforms, e.parentStep)

ChildWorld(e) == Transforms[e.childStep]

\* the orientation correction of an edge: +pi/2 on X for the motherboard only
Correction(e) == IF e.childStep = "motherboard" THEN Euler(HALF_PI, 0, 0) ELSE Euler(0, 0, 0)

\* C1: on every attached chain edge the child's world position is
\* parentWorldPosition + rotate(0.1 * parentAnchor.position, parentWorldRotation)
\* - rotate(0.1 * childAnchor.position, childWorldRotation), the subtraction
\* being left out exactly when the child has no connector anchor of the edge.
C1_ChainPosition ==
    \A e \in ChainEdges :
        Attached(e) =>
            LET anchored == VAdd(ParentWorld(e).position,
                                 applyEuler(Scaled(ParentAnchor(e)[1].position),
                                            ParentWorld(e).rotation))
            IN  ChildWorld(e).position =
                    IF ChildAnchor(e) # None
                    THEN VSub(anchored, applyEuler(Scaled(ChildAnchor(e)[1].position),
                                                   ChildWorld(e).rotation))
                    ELSE anchored

\* C2: on every attached chain edge the child's world rotation is the parent's
\* world rotation plus the parent anchor's rotation, component by component,
\* plus the +pi/2 X correction for the motherboard and for no other part.
C2_ChainRotation ==
    \A e \in ChainEdges :
        Attached(e) =>
            ChildWorld(e).rotation =
                VAdd(VAdd(ParentWorld(e).rotation, ParentAnchor(e)[1].rotation), Correction(e))

IsVector(v) == DOMAIN v = 1..3 /\ \A i \in 1..3 : v[i] \in Int

IsTransform(t) == DOMAIN t = {"position", "rotation"} /\ IsVector(t.position) /\ IsVector(t.rotation)

\* the fixed transform documented for an edge whose parent anchor is missing
FallbackTransform(e) ==
    CASE e = CaseMoboEdge  -> [position |-> Vector3(0, 100, 0), rotation |-> Euler(0, 0, 0)]
      [] e = MoboCpuEdge   -> [position |-> Vector3(0, 150, 0), rotation |-> Euler(0, 0, 0)]
      [] e = MoboGpuEdge   -> [position |-> Vector3(0, 0, 200), rotation |-> Euler(0, 0, 0)]
      [] e = CasePsuEdge   -> [position |-> Vector3(0, 0 - 200, 0), rotation |-> Euler(0, 0, 0)]
      [] e = CpuCoolerEdge -> [position |-> VAdd(ParentWorld(e).position, Vector3(0, 50, 0)),
                               rotation |-> ParentWorld(e).rotation]

\* C3: every selected part is drawn at one defined transform at least (one per
\* module for RAM), whatever its place among the selected components, and a part
\* whose parent anchor is missing is at the fixed fallback transform of its edge.
C3_PlacementDefined ==
    LET transforms == Transforms
    IN  /\ \A s \in SelectedSteps :
               \A index \in 0..(Cardinality(SelectedSteps) - 1) :
                   LET placements == ScenePlacements(transforms, buildState, s, index)
                   IN  /\ Len(placements) >= 1
                       /\ \A i \in 1..Len(placements) : IsTransform(placements[i])
        /\ \A e \in FallbackEdges :
               Detached(e) =>
                   ScenePlacements(transforms, buildState, e.childStep, 0) = <<FallbackTransform(e)>>

\* a motherboard without a case, and a CPU on a motherboard without a cpu_socket
C3_Witness ==
    /\ buildState["case"] = None
    /\ buildState["motherboard"] # None
    /\ Detached(MoboCpuEdge)
    /\ buildState["ram"] # None

\* the offset constant of an edge, from the parent's transform
FallbackOffset(e) ==
    CASE e = CaseMoboEdge  -> Vector3(0, 100, 0)
      [] e = MoboCpuEdge   -> Vector3(0, 150, 0)
      [] e = CpuCoolerEdge -> Vector3(0, 50, 0)
      [] e = MoboGpuEdge   -> Vector3(0, 0, 200)
      [] e = CasePsuEdge   -> Vector3(0, 0 - 200, 0)

\* C4: when the parent anchor of an edge is missing the child is at the parent's
\* world transform plus the fixed offset of the edge.
C4_FallbackFromParent ==
    \A e \in FallbackEdges :
        Detached(e) =>
            ChildWorld(e) = [position |-> VAdd(ParentWorld(e).position, FallbackOffset(e)),
                             rotation |-> ParentWorld(e).rotation]

RamTransforms == renderRamModules(Transforms, buildState)

RamEdge == FindType(AnchorsOf(buildState["ram"]), {"ram_edge"})

\* the transform of a RAM module in a slot by the algorithm of the other edges
RamSlotTransform(slot) ==
    LET mobo     == Get(Transforms, "motherboard")
        rotation == VAdd(mobo.rotation, slot.rotation)
        anchored == VAdd(mobo.position, applyEuler(Scaled(slot.position), mobo.rotation))
    IN  [position |-> IF RamEdge # None
                      THEN VSub(anchored, applyEuler(Scaled(RamEdge[1].position), rotation))
                      ELSE anchored,
         rotation |-> rotation]

RamSelected == buildState["motherboard"] # None /\ buildState["ram"] # None

RamQuantity == QuantityOf(buildState["ram"][1])

SlotCount == Len(RamSlots(buildState["motherboard"]))

\* C5: with S ram_slot anchors and quantity Q there are exactly Q transforms, the
\* first min(Q, S) being the slots in ascending label order, each by the per-edge
\* algorithm (slot rotation added, child connector offset subtracted).
C5_RamReplication ==
    RamSelected =>
        /\ Len(RamTransforms) = RamQuantity
        /\ \A i \in 1..Min(RamQuantity, SlotCount) :
               RamTransforms[i] = RamSlotTransform(RamSlots(buildState["motherboard"])[i])

\* C6: a synthesized RAM placement shares its position with no other RAM
\* placement of the same result.
C6_SynthesizedDistinct ==
    RamSelected =>
        \A i \in (SlotCount + 1)..RamQuantity :
            \A j \in 1..RamQuantity :
                i # j => RamTransforms[i].position # RamTransforms[j].position

CaseAnchors == IF buildState["case"] # None THEN AnchorsOf(buildState["case"]) ELSE <<>>

DriveBays == SelectSeq(CaseAnchors, LAMBDA a : a.type \in {"drive_bay_25", "drive_bay_35"})

\* C7: a selected storage part is placed through the motherboard's m2_slot when a
\* motherboard is selected and has one; otherwise at the first drive bay of the
\* case, position scaled, rotation as is, with no child correction; otherwise at
\* the fixed storage fallback.
C7_StoragePlacement ==
    buildState["storage"] # None =>
        IF Attached(MoboStorageEdge)
        THEN LET mobo     == ParentWorld(MoboStorageEdge)
                 slot     == ParentAnchor(MoboStorageEdge)[1]
                 edge     == ChildAnchor(MoboStorageEdge)
                 anchored == VAdd(mobo.position, applyEuler(Scaled(slot.position), mobo.rotation))
             IN  /\ Transforms["storage"].rotation = mobo.rotation
                 /\ Transforms["storage"].position =
                        IF edge # None
                        THEN VSub(anchored, applyEuler(Scaled(edge[1].position), mobo.rotation))
                        ELSE anchored
        ELSE IF Len(DriveBays) > 0
        THEN Transforms["storage"] =
                 [position |-> Scaled(DriveBays[1].position), rotation |-> DriveBays[1].rotation]
        ELSE Transforms["storage"] =
                 [position |-> Vector3(0 - 200, 0, 0), rotation |-> Euler(0, 0, 0)]

\* storage on a motherboard without an m2_slot, in a case whose first bay is a 3.5" one
C7_Witness ==
    /\ buildState["storage"] # None
    /\ buildState["motherboard"] # None
    /\ ~Attached(MoboStorageEdge)
    /\ Len(DriveBays) > 1
    /\ DriveBays[1].type = "drive_bay_35"

InList(x, list) == \E i \in 1..Len(list) : list[i] = x

\* C8: a child is placed from a parent anchor and a child connector anchor only
\* when one anchor's type is in the other anchor's compatibleWith.
C8_AttachmentCompatible ==
    \A e \in ChainEdges :
        (Attached(e) /\ ChildAnchor(e) # None) =>
            \/ InList(ChildAnchor(e)[1].type, ParentAnchor(e)[1].compatibleWith)
            \/ InList(ParentAnchor(e)[1].type, ChildAnchor(e)[1].compatibleWith)

\* ------------------------------------------------------------------------
\* The catalog-level resolver of the backend: handlers.GetCompatibleParts
\* ------------------------------------------------------------------------

\* the largest number of rows of the products table
MaxProducts == 3

\* a value of a TechnicalSpecs map (map[string]interface{}): a string or a number
StringValue(s) == [isString |-> TRUE, string |-> s]

NumberValue(n) == [isString |-> FALSE, number |-> n]

\* a nil or empty map
NoSpecs == <<>>

\* models.AnchorPoint, by the fields the resolver reads
AnchorPoint(Name, CompatibleTypes) == [Name |-> Name, CompatibleTypes |-> CompatibleTypes]

CreatePartRequest(SKU, Category, TechnicalSpecs, AnchorPoints) ==
    [SKU |-> SKU, Category |-> Category, TechnicalSpecs |-> TechnicalSpecs,
     AnchorPoints |-> AnchorPoints]

\* the request bodies an administrator posts
CreatePartRequests ==
    { CreatePartRequest("MB-1", "motherboard", [socket |-> StringValue("LGA1700")],
                        <<AnchorPoint("cpu_socket", <<"cpu", "LGA1700">>),
                          AnchorPoint("ram_slot_1", <<"ram", "DDR5">>)>>),
      CreatePartRequest("MB-2", "motherboard", NoSpecs,
                        <<AnchorPoint("cpu_socket", <<"LGA1700">>)>>),
      CreatePartRequest("CPU-1", "cpu", [socket |-> StringValue("LGA1700")], <<>>),
      CreatePartRequest("CPU-2", "cpu", [socket |-> StringValue("AM5")], <<>>),
      CreatePartRequest("CPU-3", "cpu", [cores |-> NumberValue(8)], <<>>),
      CreatePartRequest("CPU-4", "cpu", [socket |-> NumberValue(1700)], <<>>),
      CreatePartRequest("GPU-1", "gpu", NoSpecs,
                        <<AnchorPoint("power", <<>>)>>) }

\* models.Product
ProductRow(ID, req) ==
    [ID |-> ID, SKU |-> req.SKU, Category |-> req.Category,
     TechnicalSpecs |-> req.TechnicalSpecs, AnchorPoints |-> req.AnchorPoints,
     DeletedAt |-> None]

\* a filter that holds a candidate without a socket to the category match
KeepsCandidateStrict(parent, candidate) ==
    \E a \in 1..Len(parent.AnchorPoints) :
        \E t \in 1..Len(parent.AnchorPoints[a].CompatibleTypes) :
            LET compatType == parent.AnchorPoints[a].CompatibleTypes[t]
            IN  \/ /\ "socket" \in DOMAIN candidate.TechnicalSpecs
                   /\ candidate.TechnicalSpecs["socket"].isString
                   /\ compatType = candidate.TechnicalSpecs["socket"].string
                \/ compatType = candidate.Category

\* the candidate is kept: no socket, a socket that is not a string, or some
\* compatible type of some parent anchor equal to the socket or to the category
KeepsCandidate(parent, candidate) ==
    LET hasSocket == "socket" \in DOMAIN candidate.TechnicalSpecs
    IN  IF ~hasSocket THEN TRUE
        ELSE LET candidateSocket == candidate.TechnicalSpecs["socket"]
             IN  IF ~candidateSocket.isString THEN TRUE
                 ELSE \E a \in 1..Len(parent.AnchorPoints) :
                          \E t \in 1..Len(parent.AnchorPoints[a].CompatibleTypes) :
                              LET compatType == parent.AnchorPoints[a].CompatibleTypes[t]
                              IN  \/ compatType = candidateSocket.string
                                  \/ compatType = candidate.Category

RECURSIVE FilterBySocketCompatibility(_, _)
FilterBySocketCompatibility(parent, candidates) ==
    IF candidates = <<>> THEN <<>>
    ELSE LET rest == FilterBySocketCompatibility(parent, Tail(candidates))
         IN  IF KeepsCandidate(parent, Head(candidates))
             THEN <<Head(candidates)>> \o rest
             ELSE rest

\* compatibleTypesSet: every compatible type of every anchor of the parent
CompatibleTypesSet(parentPart) ==
    UNION { Range(parentPart.AnchorPoints[a].CompatibleTypes) :
                a \in 1..Len(parentPart.AnchorPoints) }

\* a row a query of the default scope sees: it holds a product (the zero value
\* of models.Product, with ID 0, stands at the id of a removed row) and
\* deleted_at is not set
Visible(product) == product.ID # 0 /\ product.DeletedAt = None

\* db.First(&product, id) finds the row
Found(id) == id \in 1..Len(products) /\ Visible(products[id])

\* db.Where("category IN ?", compatibleCategories).Find(&compatibleParts)
WhereCategoryIn(compatibleCategories) ==
    SelectSeq(products, LAMBDA p : Visible(p) /\ p.Category \in compatibleCategories)

\* the response of GET /api/parts/:id/compatible
CompatiblePartsResponse(id) ==
    IF ~Found(id)
    THEN [status |-> 404, data |-> <<>>]
    ELSE LET parentPart == products[id]
         IN  IF Len(parentPart.AnchorPoints) = 0
             THEN [status |-> 200, data |-> <<>>]
             ELSE LET compatibleCategories == CompatibleTypesSet(parentPart)
                      compatibleParts == IF compatibleCategories # {}
                                         THEN WhereCategoryIn(compatibleCategories)
                                         ELSE <<>>
                  IN  [status |-> 200,
                       data |-> FilterBySocketCompatibility(parentPart, compatibleParts)]

\* POST /api/admin/products: the unique index on SKU rejects a second row
CreatePart ==
    \E req \in CreatePartRequests :
        /\ Len(products) < MaxProducts
        /\ IF \E i \in 1..Len(products) : products[i].SKU = req.SKU
           THEN /\ products' = products
                /\ lastCall' = Some([op |-> "CreatePart", status |-> 500])
           ELSE /\ products' = Append(products, ProductRow(Len(products) + 1, req))
                /\ lastCall' = Some([op |-> "CreatePart", status |-> 201])
        /\ UNCHANGED <<builds, outsideBackend>>

GetCompatibleParts ==
    \E id \in 1..MaxProducts :
        /\ lastCall' = Some([op |-> "GetCompatibleParts", id |-> id,
                             response |-> CompatiblePartsResponse(id)])
        /\ UNCHANGED <<products, builds, outsideBackend>>

\* the subsequence of a sequence at the indices of a set
Pick(seq, indices) ==
    LET F[i \in 0..Len(seq)] ==
            IF i = 0 THEN <<>>
            ELSE IF i \in indices THEN Append(F[i - 1], seq[i]) ELSE F[i - 1]
    IN  F[Len(seq)]

\* a direct call of the exported filter, on any parent and any candidates of the table
CallFilterBySocketCompatibility ==
    \E parent \in Range(products) :
        \E indices \in SUBSET (1..Len(products)) :
            LET candidates == Pick(products, indices)
            IN  /\ lastCall' = Some([op |-> "FilterBySocketCompatibility",
                                     parent |-> parent, candidates |-> candidates,
                                     result |-> FilterBySocketCompatibility(parent, candidates)])
                /\ UNCHANGED <<products, builds, outsideBackend>>

NextResolver ==
    \/ CreatePart
    \/ GetCompatibleParts
    \/ CallFilterBySocketCompatibility

SpecResolver == Init /\ [][NextResolver]_vars

\* ------------------------------------------------------------------------
\* Properties of the catalog-level resolver
\* ------------------------------------------------------------------------

FilterCalled == lastCall # None /\ lastCall[1].op = "FilterBySocketCompatibility"

DeclaresSocket(candidate) == "socket" \in DOMAIN candidate.TechnicalSpecs

DeclaresStringSocket(candidate) ==
    DeclaresSocket(candidate) /\ candidate.TechnicalSpecs["socket"].isString

\* the candidate declares a socket whose value is one of the types
SocketIn(candidate, types) ==
    DeclaresStringSocket(candidate) /\ candidate.TechnicalSpecs["socket"].string \in types

\* some compatible type of the parent's anchors is the candidate's socket or category
MatchesParent(parent, candidate) ==
    \/ SocketIn(candidate, CompatibleTypesSet(parent))
    \/ candidate.Category \in CompatibleTypesSet(parent)

\* C9 as claimed: a candidate is kept if and only if it declares no socket, or
\* some parent anchor's compatible types hold its socket value or its category.
C9_KeptIffNoSocketOrMatch ==
    FilterCalled =>
        \A c \in Range(lastCall[1].candidates) :
            c \in Range(lastCall[1].result) <=>
                (~DeclaresSocket(c) \/ MatchesParent(lastCall[1].parent, c))

AdmittedBySocketFilter(c) ==
    ~DeclaresStringSocket(c) \/ MatchesParent(lastCall[1].parent, c)

\* C9 as amended: the result is the candidates, in their order, that declare no
\* string-valued socket (none at all, or one that is not a string) or whose
\* socket or category is a compatible type of some parent anchor.
C9_FilterBySocket ==
    FilterCalled =>
        lastCall[1].result = SelectSeq(lastCall[1].candidates, AdmittedBySocketFilter)

\* one call that keeps a candidate without a socket and one with a matching
\* socket, and drops one with a mismatching socket
C9_Witness ==
    /\ FilterCalled
    /\ \E c \in Range(lastCall[1].candidates) :
           ~DeclaresSocket(c) /\ c \in Range(lastCall[1].result)
    /\ \E c \in Range(lastCall[1].candidates) :
           DeclaresStringSocket(c) /\ c \in Range(lastCall[1].result)
    /\ \E c \in Range(lastCall[1].candidates) :
           DeclaresStringSocket(c) /\ c \notin Range(lastCall[1].result)

CompatibleCalled ==
    /\ lastCall # None
    /\ lastCall[1].op = "GetCompatibleParts"
    /\ lastCall[1].id \in 1..Len(products)

\* C10: the catalog-level resolver admits every product whose category or
\* declared socket is a compatible type of some anchor of the parent, and every
\* product that declares no socket.
C10_ResolverAdmits ==
    CompatibleCalled =>
        \A c \in Range(products) :
            (MatchesParent(products[lastCall[1].id], c) \/ ~DeclaresSocket(c)) =>
                c \in Range(lastCall[1].response.data)

\* ------------------------------------------------------------------------
\* The compatibility verdicts of ComponentSelector
\* ------------------------------------------------------------------------

\* a template literal: its text and the values interpolated into it
Reason(template, values) == [template |-> template, values |-> values]

Incompatible(reason) == [compatible |-> FALSE, reason |-> reason]

Compatible == [compatible |-> TRUE]

\* technical_specs of the component selected on a step
SelectedSpecs(stepId) == buildState[stepId][1].technical_specs

\* Each check below is one if block of checkCompatibility: Some(result) when
\* the block is left by a return or a throw, None when control falls through.
MotherboardCheck(product) ==
    IF currentStep.category = "MOTHERBOARD" /\ buildState["case"] # None
    THEN LET caseSpecs == SelectedSpecs("case")
             moboFormFactor == GetProp(product.technical_specs, "form_factor")
             supported_motherboards == GetProp(caseSpecs, "supported_motherboards")
         IN  IF Truthy(supported_motherboards) /\ Truthy(moboFormFactor)
             THEN IF ~HasIncludes(supported_motherboards) THEN Some(TypeError)
                  ELSE IF ~Includes(supported_motherboards, moboFormFactor)
                       THEN Some(Incompatible(Reason("Case doesn't support ${moboFormFactor}",
                                                     <<moboFormFactor>>)))
                       ELSE None
             ELSE None
    ELSE None

\* the CPU block without its presence test of the two sockets
CpuCheckUnguarded(product) ==
    IF currentStep.category = "CPU" /\ buildState["motherboard"] # None
    THEN LET moboSocket == GetProp(SelectedSpecs("motherboard"), "socket")
             cpuSocket == GetProp(product.technical_specs, "socket")
         IN  IF StrictNotEqual(moboSocket, cpuSocket)
             THEN Some(Incompatible(Reason("Socket mismatch (needs ${moboSocket})", <<moboSocket>>)))
             ELSE None
    ELSE None

CpuCheck(product) ==
    IF currentStep.category = "CPU" /\ buildState["motherboard"] # None
    THEN LET moboSocket == GetProp(SelectedSpecs("motherboard"), "socket")
             cpuSocket == GetProp(product.technical_specs, "socket")
         IN  IF Truthy(moboSocket) /\ Truthy(cpuSocket) /\ StrictNotEqual(moboSocket, cpuSocket)
             THEN Some(Incompatible(Reason("Socket mismatch (needs ${moboSocket})", <<moboSocket>>)))
             ELSE None
    ELSE None

RamCheck(product) ==
    IF currentStep.category = "RAM" /\ buildState["motherboard"] # None
    THEN LET moboRamType == GetProp(SelectedSpecs("motherboard"), "ram_type")
             ramType == GetProp(product.technical_specs, "type")
         IN  IF Truthy(moboRamType) /\ Truthy(ramType) /\ StrictNotEqual(moboRamType, ramType)
             THEN Some(Incompatible(Reason("RAM type mismatch (needs ${moboRamType})", <<moboRamType>>)))
             ELSE None
    ELSE None

GpuCheck(product) ==
    IF currentStep.category = "GPU" /\ buildState["case"] # None
    THEN LET maxGpuLength == GetProp(SelectedSpecs("case"), "max_gpu_length_mm")
             gpuLength == GetProp(product.technical_specs, "length_mm")
         IN  IF Truthy(maxGpuLength) /\ Truthy(gpuLength) /\ GreaterThan(gpuLength, maxGpuLength)
             THEN Some(Incompatible(Reason("GPU too long (max ${maxGpuLength}mm)", <<maxGpuLength>>)))
             ELSE None
    ELSE None

CoolerCheck(product) ==
    IF currentStep.category = "CPU_COOLER" /\ buildState["case"] # None
    THEN LET maxCoolerHeight == GetProp(SelectedSpecs("case"), "max_cpu_cooler_height_mm")
             coolerHeight == GetProp(product.technical_specs, "height_mm")
         IN  IF Truthy(maxCoolerHeight) /\ Truthy(coolerHeight)
                    /\ GreaterThan(coolerHeight, maxCoolerHeight)
             THEN Some(Incompatible(Reason("Cooler too tall (max ${maxCoolerHeight}mm)",
                                           <<maxCoolerHeight>>)))
             ELSE None
    ELSE None

\* the first of the results that is a return or a throw, None if there is none
FirstReturn(results) ==
    LET left == SelectSeq(results, LAMBDA r : r # None)
    IN  IF left = <<>> THEN None ELSE left[1]

checkCompatibility(product) ==
    LET returned == FirstReturn(<<MotherboardCheck(product), CpuCheck(product), RamCheck(product),
                                  GpuCheck(product), CoolerCheck(product)>>)
    IN  IF returned # None THEN returned[1] ELSE Compatible

\* the candidates the selector lists on the current step
Candidates == ProductsOf(currentStep.category)

IsVerdict(result) == "compatible" \in DOMAIN result

\* the reason of a verdict interpolates the value v
ReasonStates(verdict, v) ==
    \E i \in 1..Len(verdict.reason.values) : StrictEqual(verdict.reason.values[i], v)

OnStepWith(category, parentStep) == currentStep.category = category /\ buildState[parentStep] # None

\* C11: on the GPU step with a case selected, a candidate is flagged
\* incompatible exactly when its length_mm is greater than the case's
\* max_gpu_length_mm, and the reason then states both the maximum and the
\* candidate's actual length; likewise on the CPU-cooler step for height_mm
\* against max_cpu_cooler_height_mm; a length equal to the maximum is compatible.
C11_LengthGate ==
    \A product \in Candidates :
        \A gate \in { <<"GPU", "length_mm", "max_gpu_length_mm">>,
                      <<"CPU_COOLER", "height_mm", "max_cpu_cooler_height_mm">> } :
            LET actual == GetProp(product.technical_specs, gate[2])
                maximum == GetProp(SelectedSpecs("case"), gate[3])
                verdict == checkCompatibility(product)
            IN  (OnStepWith(gate[1], "case") /\ actual # Undefined /\ maximum # Undefined) =>
                    /\ verdict.compatible = ~(actual.value > maximum.value)
                    /\ ~verdict.compatible =>
                           ReasonStates(verdict, maximum) /\ ReasonStates(verdict, actual)

\* C12: on the motherboard step with a case selected, a candidate is
\* compatible exactly when its form_factor is a member of the case's
\* supported_motherboards; when it is not, the verdict is incompatible and the
\* reason names the set of form factors the case requires.
C12_FormFactorGate ==
    \A product \in Candidates :
        LET form_factor == GetProp(product.technical_specs, "form_factor")
            supported == GetProp(SelectedSpecs("case"), "supported_motherboards")
            verdict == checkCompatibility(product)
        IN  (OnStepWith("MOTHERBOARD", "case") /\ form_factor # Undefined /\ supported # Undefined) =>
                /\ verdict.compatible = (\E i \in 1..Len(supported.value) :
                                              StrictEqual(supported.value[i], form_factor))
                /\ ~verdict.compatible => ReasonStates(verdict, supported)

\* ------------------------------------------------------------------------
\* Sessions loaded from saved builds
\* ------------------------------------------------------------------------

\* a component of GET /api/builds/:id as LoadBuildDialog hands it to onLoadBuild
LoadedComponent(id, category, technical_specs) ==
    [id |-> id, category |-> category, anchor_points |-> None,
     technical_specs |-> technical_specs, quantity |-> None]

\* cases as saved builds may hold them: technical_specs is any JSON the
\* backend accepted
SavedCases ==
    <<LoadedComponent("11", "CASE",
                      [supported_motherboards |-> JsArray(<<JsString("ATX")>>),
                       max_gpu_length_mm |-> JsNumber(300),
                       max_cpu_cooler_height_mm |-> JsNumber(160)]),
      LoadedComponent("12", "case",
                      [supported_motherboards |-> JsString("ATX,mATX"),
                       max_gpu_length_mm |-> JsString("300"),
                       max_cpu_cooler_height_mm |-> JsNull]),
      LoadedComponent("13", "CASE",
                      [supported_motherboards |-> JsNumber(300),
                       max_gpu_length_mm |-> JsNumber(0)]),
      LoadedComponent("14", "CASE", JsNull),
      LoadedComponent("15", "CASE",
                      [supported_motherboards |-> JsArray(<<>>),
                       max_cpu_cooler_height_mm |-> JsString("")])>>

SavedMotherboards ==
    <<LoadedComponent("21", "MOTHERBOARD",
                      [socket |-> JsString("AM5"), ram_type |-> JsString("DDR5"),
                       form_factor |-> JsString("ATX")]),
      LoadedComponent("22", "Motherboard",
                      [socket |-> JsString(""), ram_type |-> JsNull]),
      LoadedComponent("23", "MOTHERBOARD", [socket |-> JsNumber(300)]),
      LoadedComponent("24", "MOTHERBOARD", JsNull),
      LoadedComponent("25", "MOTHERBOARD",
                      [socket |-> JsString("LGA1700"), ram_type |-> JsString("DDR4")])>>

\* the components lists of the saved builds: a motherboard, a case, or both
SavedComponents ==
    {<<SavedCases[i]>> : i \in 1..Len(SavedCases)}
        \cup {<<SavedMotherboards[j]>> : j \in 1..Len(SavedMotherboards)}
        \cup {<<SavedCases[i], SavedMotherboards[j]>> :
                  i \in 1..Len(SavedCases), j \in 1..Len(SavedMotherboards)}

\* String.prototype.toUpperCase on the category names of the saved components
ToUpperCase(s) ==
    CASE s = "case" -> "CASE"
      [] s = "Motherboard" -> "MOTHERBOARD"
      [] OTHER -> s

\* the last component of the list whose category is the step's, None if none
ComponentOfStep(components, category) ==
    LET matching == SelectSeq(components, LAMBDA c : ToUpperCase(c.category) = ToUpperCase(category))
    IN  IF matching = <<>> THEN None ELSE Some(matching[Len(matching)])

\* the largest id of a saved build offered by the load dialog
MaxSavedBuilds == 2

\* Load of a saved build from the load dialog
handleLoadBuild ==
    \E buildId \in 1..MaxSavedBuilds, buildName \in {"My build"}, components \in SavedComponents :
        /\ buildState' = [id \in StepIds |->
                             LET step == CHOOSE st \in Range(BUILD_STEPS) : st.id = id
                             IN  ComponentOfStep(components, step.category)]
        /\ currentBuildId' = Some(buildId)
        /\ currentBuildName' = Some(buildName)
        /\ currentStepIndex' = 0
        /\ UNCHANGED outsideBuilder

\* Start New Build, offered while a saved build is loaded
handleNewBuild ==
    /\ currentBuildId # None
    /\ buildState' = [id \in StepIds |-> None]
    /\ currentBuildId' = None
    /\ currentBuildName' = None
    /\ currentStepIndex' = 0
    /\ UNCHANGED outsideBuilder

NextSelector ==
    \/ handleLoadBuild
    \/ handleNewBuild
    \/ handleNext
    \/ handlePrevious
    \/ setCurrentStepIndex
    \/ handleRemoveComponent

\* a session that loads saved builds and browses their steps
SpecSelector == Init /\ [][NextSelector]_vars

\* candidates as the products endpoint may return them: technical_specs is any
\* JSON the backend accepted
FetchedProducts ==
    { Product("m-1", "MOTHERBOARD", None, [form_factor |-> JsString("ATX")]),
      Product("m-2", "MOTHERBOARD", None, [form_factor |-> JsString("ITX")]),
      Product("m-3", "MOTHERBOARD", None, [form_factor |-> JsString("")]),
      Product("m-4", "MOTHERBOARD", None, [form_factor |-> JsNumber(300)]),
      Product("m-5", "MOTHERBOARD", None, JsNull),
      Product("c-1", "CPU", None, [socket |-> JsString("AM5")]),
      Product("c-2", "CPU", None, [socket |-> JsString("LGA1700")]),
      Product("c-3", "CPU", None, [socket |-> JsString("")]),
      Product("c-4", "CPU", None, [socket |-> JsNull]),
      Product("c-5", "CPU", None, [socket |-> JsNumber(300)]),
      Product("c-6", "CPU", None, [cores |-> JsNumber(8)]),
      Product("c-7", "CPU", None, JsNull),
      Product("r-1", "RAM", None, [type |-> JsString("DDR4")]),
      Product("r-2", "RAM", None, [type |-> JsString("DDR5")]),
      Product("r-3", "RAM", None, [type |-> JsString("")]),
      Product("r-4", "RAM", None, [capacity_gb |-> JsNumber(16)]),
      Product("r-5", "RAM", None, JsNull),
      Product("g-1", "GPU", None, [length_mm |-> JsNumber(350)]),
      Product("g-2", "GPU", None, [length_mm |-> JsNumber(300)]),
      Product("g-3", "GPU", None, [length_mm |-> JsString("350")]),
      Product("g-4", "GPU", None, [length_mm |-> JsString("ATX")]),
      Product("g-5", "GPU", None, [length_mm |-> JsNull]),
      Product("g-6", "GPU", None, JsNull),
      Product("k-1", "CPU_COOLER", None, [height_mm |-> JsNumber(170)]),
      Product("k-2", "CPU_COOLER", None, [height_mm |-> JsNumber(0)]),
      Product("k-3", "CPU_COOLER", None, [height_mm |-> JsString("350")]),
      Product("k-4", "CPU_COOLER", None, [tdp_rating_watts |-> JsNumber(150)]) }

\* the candidates listed on the current step: the catalog's and the fetched ones
ListedCandidates == {p \in Catalog \cup FetchedProducts : p.category = currentStep.category}

\* an attribute is present when it holds a value that is not null, empty or zero
Present(v) == Truthy(v)

\* the attribute pairs checkCompatibility compares for equality
EqualityGates ==
    { [category |-> "CPU", candidate |-> "socket", parent |-> "socket"],
      [category |-> "RAM", candidate |-> "type", parent |-> "ram_type"] }

\* C13: on the CPU step with a motherboard selected, a candidate is flagged
\* incompatible exactly when the motherboard's socket and the candidate's
\* socket are both present and differ, and the reason then names the
\* motherboard's socket; on the RAM step the same holds for the candidate's
\* type against the motherboard's ram_type; an attribute absent on either side
\* leaves the candidate compatible.
C13_EqualityGate ==
    \A product \in ListedCandidates, gate \in EqualityGates :
        OnStepWith(gate.category, "motherboard") =>
            LET required == GetProp(SelectedSpecs("motherboard"), gate.parent)
                offered == GetProp(product.technical_specs, gate.candidate)
                verdict == checkCompatibility(product)
            IN  /\ IsVerdict(verdict)
                /\ ~verdict.compatible <=>
                       Present(required) /\ Present(offered) /\ ~StrictEqual(required, offered)
                /\ ~verdict.compatible =>
                       verdict.reason.values = <<required>>

\* a state in which the selector flags one candidate for its socket and passes
\* another whose socket is absent
C13_Witness ==
    /\ OnStepWith("CPU", "motherboard")
    /\ \E product \in ListedCandidates : ~checkCompatibility(product).compatible
    /\ \E product \in ListedCandidates :
           /\ GetProp(product.technical_specs, "socket") = Undefined
           /\ checkCompatibility(product).compatible

\* C14: checkCompatibility returns a verdict for every candidate and every
\* selected parent, whatever values their technical_specs hold (absent, empty,
\* or of an unexpected type such as a non-list supported_motherboards); it
\* never raises an error.
C14_ResolverTotal ==
    \A product \in ListedCandidates : IsVerdict(checkCompatibility(product))

\* ------------------------------------------------------------------------
\* The anchor store: useAnchorStore
\* ------------------------------------------------------------------------

\* the largest number of ids uuidv4 generates in one editing session
MaxUuids == 3

\* the largest number of anchors the editor puts on one part
MaxAnchors == 3

\* decimal numerals of the counters in generated labels and ids
Decimal(n) == <<"0", "1", "2", "3", "4", "5", "6", "7", "8", "9">>[n + 1]

\* the k-th id generated by uuidv4; ids generated at different calls differ
uuidv4(k) == "uuid-" \o Decimal(k)

Anchor(id, type, label, position, rotation, direction, connectionAxis, compatibleWith) ==
    [id |-> id, type |-> type, label |-> label, position |-> position, rotation |-> rotation,
     direction |-> direction, connectionAxis |-> connectionAxis, compatibleWith |-> compatibleWith]

\* the label counter over all anchors, whatever their type
getDefaultLabelOfAll(type, existingAnchors) ==
    ANCHOR_TYPE_INFO[type].label \o " " \o Decimal(Len(existingAnchors) + 1)

getDefaultLabel(type, existingAnchors) ==
    LET info == ANCHOR_TYPE_INFO[type]
        sameTypeCount == Len(SelectSeq(existingAnchors, LAMBDA a : a.type = type)) + 1
    IN  info.label \o " " \o Decimal(sameTypeCount)

\* label || getDefaultLabel(...): an omitted or empty label is replaced
LabelOrDefault(label, type, existingAnchors) ==
    IF label # None /\ label[1] # "" THEN label[1] ELSE getDefaultLabel(type, existingAnchors)

\* a find that falls back to the first anchor
FindAnchorOrFirst(list, id) ==
    IF \E i \in 1..Len(list) : list[i].id = id
    THEN CHOOSE i \in 1..Len(list) : list[i].id = id /\ \A j \in 1..(i - 1) : list[j].id # id
    ELSE IF list = <<>> THEN 0 ELSE 1

\* state.anchors.find(a => a.id === id): index of the first anchor of that id, 0 if none
FindAnchor(list, id) ==
    IF \E i \in 1..Len(list) : list[i].id = id
    THEN CHOOSE i \in 1..Len(list) : list[i].id = id /\ \A j \in 1..(i - 1) : list[j].id # id
    ELSE 0

\* a merge that resets the rotation it is not given
MergeResetting(anchor, updates) ==
    [f \in DOMAIN anchor |->
        IF f \in DOMAIN updates THEN updates[f]
        ELSE IF f = "rotation" THEN <<0, 0, 0>> ELSE anchor[f]]

\* { ...anchor, ...updates }
Merge(anchor, updates) ==
    [f \in DOMAIN anchor |-> IF f \in DOMAIN updates THEN updates[f] ELSE anchor[f]]

\* the anchor types offered by the editor's type picker that the sessions use
AddTypes == {"ram_slot", "cpu_socket"}

\* the label argument of addAnchor: omitted, empty or a text
AddLabels == {None, Some(""), Some("Front")}

\* the ids the callers pass: those of the list and one no anchor carries
AnchorIds == {anchors[i].id : i \in 1..Len(anchors)}

CallIds == AnchorIds \cup {"uuid-0"}

\* the partial updates of updateAnchor: subsets of the six editable fields
AnchorUpdates ==
    { [position |-> <<2, 0, 1>>, rotation |-> <<0, 1, 0>>, label |-> "Rear"],
      [direction |-> "input", connectionAxis |-> "X_POS", compatibleWith |-> <<"ram_edge", "pcie_edge">>] }

\* the lists the editor is opened with: the anchors ProductForm parsed from a
\* persisted product
InitialAnchorLists ==
    { <<Anchor("anchor-0", "cpu_socket", "Socket", <<0, 2, 0>>, <<1, 0, 0>>, "output", "Z_POS", <<>>)>> }

addAnchorCall(type, label) ==
    /\ uuidCount < MaxUuids
    /\ Len(anchors) < MaxAnchors
    /\ LET info == ANCHOR_TYPE_INFO[type]
       IN  anchors' = Append(anchors,
                             Anchor(uuidv4(uuidCount + 1), type,
                                    LabelOrDefault(label, type, anchors),
                                    <<0, 0, 0>>, <<0, 0, 0>>, info.direction,
                                    info.defaultAxis, info.defaultCompatible))
    /\ selectedAnchorId' = None
    /\ uuidCount' = uuidCount + 1
    /\ UNCHANGED outsideStore

addAnchor == \E type \in AddTypes, label \in AddLabels : addAnchorCall(type, label)

\* the clone without the offset that keeps it off its source
CloneInPlace(anchor, list, id) ==
    [anchor EXCEPT !.id = id, !.label = getDefaultLabel(anchor.type, list)]

\* newAnchor of duplicateAnchor
Clone(anchor, list, id) ==
    [anchor EXCEPT
        !.id = id,
        !.label = getDefaultLabel(anchor.type, list),
        !.position = <<anchor.position[1] + 1, anchor.position[2], anchor.position[3]>>]

duplicateAnchorCall(id) ==
    LET found == FindAnchor(anchors, id)
    IN  IF found = 0
        THEN UNCHANGED vars
        ELSE /\ uuidCount < MaxUuids
             /\ Len(anchors) < MaxAnchors
             /\ LET newAnchor == Clone(anchors[found], anchors, uuidv4(uuidCount + 1))
                IN  /\ anchors' = Append(anchors, newAnchor)
                    /\ selectedAnchorId' = Some(newAnchor.id)
             /\ uuidCount' = uuidCount + 1
             /\ UNCHANGED outsideStore

duplicateAnchor == \E id \in CallIds : duplicateAnchorCall(id)

updateAnchorCall(id, updates) ==
    /\ anchors' = [i \in 1..Len(anchors) |->
                      IF anchors[i].id = id THEN Merge(anchors[i], updates) ELSE anchors[i]]
    /\ UNCHANGED <<selectedAnchorId, uuidCount, outsideStore>>

updateAnchor == \E id \in CallIds, updates \in AnchorUpdates : updateAnchorCall(id, updates)

\* the editor selects an anchor of the list or clears the selection
selectAnchor ==
    \E id \in {None} \cup {Some(a) : a \in AnchorIds} :
        /\ selectedAnchorId' = id
        /\ UNCHANGED <<anchors, uuidCount, outsideStore>>

\* a removal that leaves the selection as it was
removeAnchorKeepingSelection(id) ==
    /\ anchors' = SelectSeq(anchors, LAMBDA a : a.id # id)
    /\ UNCHANGED <<selectedAnchorId, uuidCount, outsideStore>>

removeAnchorCall(id) ==
    /\ anchors' = SelectSeq(anchors, LAMBDA a : a.id # id)
    /\ selectedAnchorId' = IF selectedAnchorId = Some(id) THEN None ELSE selectedAnchorId
    /\ UNCHANGED <<uuidCount, outsideStore>>

removeAnchor == \E id \in CallIds : removeAnchorCall(id)

setAnchors ==
    \E list \in InitialAnchorLists :
        /\ anchors' = list
        /\ selectedAnchorId' = None
        /\ UNCHANGED <<uuidCount, outsideStore>>

clearAnchors ==
    /\ anchors' = <<>>
    /\ selectedAnchorId' = None
    /\ UNCHANGED <<uuidCount, outsideStore>>

NextStore ==
    \/ addAnchor
    \/ duplicateAnchor
    \/ updateAnchor
    \/ selectAnchor
    \/ removeAnchor
    \/ setAnchors
    \/ clearAnchors

\* an editing session of the model editor
SpecStore == Init /\ [][NextStore]_vars

\* ------------------------------------------------------------------------
\* Properties of the anchor store
\* ------------------------------------------------------------------------

\* the anchors before the call are the first anchors after it, unchanged
Kept == \A i \in 1..Len(anchors) : anchors'[i] = anchors[i]

Appended == anchors'[Len(anchors')]

\* the counter rule: "<CatalogLabel> N", N = 1 + the anchors of the type in list
CounterLabel(type, list) ==
    ANCHOR_TYPE_INFO[type].label \o " "
        \o Decimal(1 + Cardinality({i \in 1..Len(list) : list[i].type = type}))

\* a label is given when the argument is a non-empty text
LabelGiven(label) == label # None /\ label[1] # ""

\* C15: addAnchor(type, label) appends exactly one anchor whose id differs
\* from every existing id, with position and rotation (0,0,0), with direction,
\* connectionAxis and compatibleWith of the catalog descriptor of type, and
\* with the given label or, when none is given, "<CatalogLabel> N" with N = 1 +
\* the number of existing anchors of that type; every existing anchor is
\* unchanged and the selection becomes none.
C15_AddAnchor ==
    [][\A type \in AddTypes, label \in AddLabels :
          addAnchorCall(type, label) =>
              /\ Len(anchors') = Len(anchors) + 1
              /\ Kept
              /\ \A i \in 1..Len(anchors) : Appended.id # anchors[i].id
              /\ Appended.type = type
              /\ Appended.position = <<0, 0, 0>>
              /\ Appended.rotation = <<0, 0, 0>>
              /\ Appended.direction = ANCHOR_TYPE_INFO[type].direction
              /\ Appended.connectionAxis = ANCHOR_TYPE_INFO[type].defaultAxis
              /\ Appended.compatibleWith = ANCHOR_TYPE_INFO[type].defaultCompatible
              /\ Appended.label = IF LabelGiven(label) THEN label[1] ELSE CounterLabel(type, anchors)
              /\ selectedAnchorId' = None]_vars

\* a list that addAnchor extended twice: once with a given label, once with
\* the second generated label of a type, next to an anchor of another type
C15_Witness ==
    /\ selectedAnchorId = None
    /\ \E i, j, k \in 1..Len(anchors) :
           /\ anchors[i].label = "Front" /\ anchors[i].id = uuidv4(1)
           /\ anchors[j].label = "RAM Slot 2" /\ anchors[j].position = <<0, 0, 0>>
           /\ anchors[k].type = "cpu_socket"

\* C16: duplicateAnchor(id) on an existing anchor appends exactly one clone
\* with a different id, a label recomputed by the counter rule against the list
\* before duplication, a position equal to the source's plus 1 on the x axis,
\* and every other field equal to the source's; the source and all other
\* anchors are unchanged, and the clone becomes the selected anchor.
C16_DuplicateAnchor ==
    [][\A id \in AnchorIds :
          duplicateAnchorCall(id) =>
              LET source == anchors[FindAnchor(anchors, id)]
              IN  /\ Len(anchors') = Len(anchors) + 1
                  /\ Kept
                  /\ \A i \in 1..Len(anchors) : Appended.id # anchors[i].id
                  /\ Appended.label = CounterLabel(source.type, anchors)
                  /\ Appended.position = <<source.position[1] + 1, source.position[2],
                                           source.position[3]>>
                  /\ \A f \in DOMAIN source \ {"id", "label", "position"} : Appended[f] = source[f]
                  /\ selectedAnchorId' = Some(Appended.id)]_vars

\* the selected clone of an anchor that was moved and edited, in a list of
\* three
C16_Witness ==
    /\ Len(anchors) = 3
    /\ selectedAnchorId = Some(anchors[3].id)
    /\ \E i \in 1..2 :
           /\ anchors[i].rotation = <<0, 1, 0>>
           /\ anchors[3].rotation = <<0, 1, 0>>
           /\ anchors[3].position = <<anchors[i].position[1] + 1, anchors[i].position[2],
                                      anchors[i].position[3]>>
           /\ anchors[3].type = anchors[i].type
           /\ anchors[3].label # anchors[i].label

C18_UpdateAnchor ==
    [][\A id \in AnchorIds, updates \in AnchorUpdates :
          updateAnchorCall(id, updates) =>
              /\ Len(anchors') = Len(anchors)
              /\ \A i \in 1..Len(anchors) :
                     IF anchors[i].id = id
                     THEN /\ \A f \in DOMAIN anchors[i] \ DOMAIN updates : anchors'[i][f] = anchors[i][f]
                          /\ \A f \in DOMAIN updates : anchors'[i][f] = updates[f]
                          /\ DOMAIN updates \subseteq
                                 {"position", "rotation", "direction", "label", "connectionAxis",
                                  "compatibleWith"}
                     ELSE anchors'[i] = anchors[i]
              /\ Cardinality({i \in 1..Len(anchors) : anchors[i].id = id}) = 1
              /\ selectedAnchorId' = selectedAnchorId]_vars

\* an updated anchor between two untouched ones, another anchor being selected
C18_Witness ==
    /\ Len(anchors) = 3
    /\ anchors[2].label = "Rear"
    /\ anchors[2].rotation = <<0, 1, 0>>
    /\ anchors[2].direction = ANCHOR_TYPE_INFO[anchors[2].type].direction
    /\ anchors[1].label # "Rear" /\ anchors[3].label # "Rear"
    /\ selectedAnchorId = Some(anchors[1].id)

\* ------------------------------------------------------------------------
\* The product form: anchors to and from their persisted representation
\* ------------------------------------------------------------------------

\* the largest number of anchors of a list the editor hands to the form
MaxFormAnchors == 2

\* the readings of Date.now() when the form is opened
Clock == {"1700000000000", "1700000000001"}

\* anchors as the editor leaves them; the label field of the editor can be
\* emptied
EditedAnchors ==
    { Anchor("uuid-1", "ram_slot", "RAM Slot 1", <<1, 0, 0>>, <<0, 0, 0>>, "output", "Y_NEG", <<"ram_edge">>),
      Anchor("uuid-2", "pcie_edge", "PCIe Edge 1", <<0, 2, 0 - 1>>, <<0, 1, 0>>, "input", "Z_NEG",
             <<"pcie_x16", "pcie_x4", "pcie_x1">>),
      Anchor("uuid-3", "cpu_socket", "", <<3, 0, 0>>, <<0, 0, 0>>, "output", "Y_NEG", <<>>),
      Anchor("anchor-0-1700000000000", "ram_slot", "Rear", <<0, 0, 5>>, <<1, 0, 0>>, "input", "X_POS",
             <<"cpu_bottom", "ram_edge">>) }

\* the lists the editor saves: anchors with distinct ids
SavedAnchorLists ==
    {list \in UNION {[1..n -> EditedAnchors] : n \in 0..MaxFormAnchors} :
        \A i, j \in 1..Len(list) : i # j => list[i].id # list[j].id}

\* onSubmit: anchors.map(a => ({ name: a.type, ... }))
SerializeAnchors(list) ==
    [i \in 1..Len(list) |->
        [name |-> list[i].type,
         label |-> list[i].label,
         position |-> XYZ(list[i].position[1], list[i].position[2], list[i].position[3]),
         rotation |-> XYZ(list[i].rotation[1], list[i].rotation[2], list[i].rotation[3]),
         direction |-> list[i].direction,
         connection_axis |-> list[i].connectionAxis,
         compatible_types |-> list[i].compatibleWith]]

\* value || fallback on strings
OrElse(value, fallback) == IF value # "" THEN value ELSE fallback

\* the initial anchors state of ProductForm, computed from initialData.anchor_points
ParseAnchorPoints(persisted, now) ==
    IF persisted # None /\ Len(persisted[1]) > 0
    THEN [i \in 1..Len(persisted[1]) |->
             LET ap == persisted[1][i]
             IN  Anchor("anchor-" \o Decimal(i - 1) \o "-" \o now,
                        ap.name,
                        OrElse(ap.label, "Anchor " \o Decimal(i)),
                        <<ap.position.x, ap.position.y, ap.position.z>>,
                        <<ap.rotation.x, ap.rotation.y, ap.rotation.z>>,
                        OrElse(ap.direction, "output"),
                        OrElse(ap.connection_axis, "Y_NEG"),
                        ap.compatible_types)]
    ELSE <<>>

\* the edit page mounts ProductForm with the persisted product
openProductForm ==
    \E now \in Clock :
        /\ formAnchors' = ParseAnchorPoints(persistedAnchors, now)
        /\ UNCHANGED <<persistedAnchors, outsideForm>>

\* the editor's Save hands its anchors to the form
handleAnchorsSave ==
    \E savedAnchors \in SavedAnchorLists :
        /\ formAnchors' = savedAnchors
        /\ UNCHANGED <<persistedAnchors, outsideForm>>

\* removal of the model file
handleFileSelect ==
    /\ formAnchors' = <<>>
    /\ UNCHANGED <<persistedAnchors, outsideForm>>

\* submit: a PUT when the product exists, else a POST followed by a reset
onSubmit ==
    /\ persistedAnchors' = Some(SerializeAnchors(formAnchors))
    /\ formAnchors' = IF persistedAnchors # None THEN formAnchors ELSE <<>>
    /\ UNCHANGED outsideForm

NextForm ==
    \/ openProductForm
    \/ handleAnchorsSave
    \/ handleFileSelect
    \/ onSubmit

\* the admin's editing of one product's anchors
SpecForm == Init /\ [][NextForm]_vars

\* the fields of an anchor that the persisted representation carries
SameAnchor(a, b) ==
    /\ a.type = b.type
    /\ a.label = b.label
    /\ a.position = b.position
    /\ a.rotation = b.rotation
    /\ a.direction = b.direction
    /\ a.connectionAxis = b.connectionAxis
    /\ Range(a.compatibleWith) = Range(b.compatibleWith)

SameAnchors(list, other) ==
    /\ Len(list) = Len(other)
    /\ \A i \in 1..Len(list) : SameAnchor(list[i], other[i])

\* C19: serializing an anchor list to the persisted representation (name,
\* label, position, rotation, direction, connection_axis, compatible_types) and
\* parsing it back, by the form or by the builder, yields a value-equal list:
\* every such field of every anchor is reproduced exactly, compatible_types as
\* a set, and the order of the list is kept.
C19_RoundTrip ==
    [][onSubmit =>
          /\ SameAnchors(convertApiAnchors(persistedAnchors'), formAnchors)
          /\ \A now \in Clock : SameAnchors(ParseAnchorPoints(persistedAnchors', now), formAnchors)]_vars

\* ------------------------------------------------------------------------
\* Saved builds and the maintenance of the catalog: handlers.SaveBuild and the
\* handlers that update and delete the rows of the products table
\* ------------------------------------------------------------------------

\* the largest number of rows of the builds table
MaxBuilds == 2

\* the largest number of components of a save request
MaxComponents == 2

\* handlers.SaveBuildComponent, by the fields the model keeps
SaveBuildComponent(ID, Category, TechnicalSpecs, AnchorPoints, Quantity) ==
    [ID |-> ID, Category |-> Category, TechnicalSpecs |-> TechnicalSpecs,
     AnchorPoints |-> AnchorPoints, Quantity |-> Quantity]

\* handlers.SaveBuildRequest: Components is None when the body has no components
SaveBuildRequest(Name, Components) == [Name |-> Name, Components |-> Components]

\* a component that refers to a product the catalog never held, with a quantity
UnknownComponent == SaveBuildComponent(999999, "Unknown", NoSpecs, <<>>, 2)

\* the components a client sends: the products the catalog lists at that time,
\* their quantity omitted (0) as for every part but RAM, and a component of
\* its own making
ClientComponents ==
    { SaveBuildComponent(products[i].ID, products[i].Category, products[i].TechnicalSpecs,
                         products[i].AnchorPoints, 0) :
          i \in {j \in 1..Len(products) : Found(j)} }
    \cup {UnknownComponent}

\* the non-empty sequences of at most n elements of a set
SeqUpTo(set, n) == UNION { [1..k -> set] : k \in 1..n }

SaveBuildRequests ==
    {SaveBuildRequest("My build", None)} \cup
    { SaveBuildRequest("My build", Some(components)) :
          components \in SeqUpTo(ClientComponents, MaxComponents) }

\* middleware.GetUserIDFromContext: no user id, or the id of an authenticated user
UserIDs == {None, Some("user-1"), Some("user-2")}

\* a component stored without the anchors of the request
BuildComponentWithoutAnchors(comp) ==
    [ID |-> comp.ID, Category |-> comp.Category, TechnicalSpecs |-> comp.TechnicalSpecs,
     AnchorPoints |-> <<>>,
     Quantity |-> IF comp.Quantity = 0 THEN 1 ELSE comp.Quantity]

\* models.BuildComponent as SaveBuild fills it from a component of the request
BuildComponent(comp) ==
    [ID |-> comp.ID, Category |-> comp.Category, TechnicalSpecs |-> comp.TechnicalSpecs,
     AnchorPoints |-> comp.AnchorPoints,
     Quantity |-> IF comp.Quantity = 0 THEN 1 ELSE comp.Quantity]

\* models.Build
Build(ID, UserID, Name, Components) ==
    [ID |-> ID, UserID |-> UserID, Name |-> Name, Components |-> Components,
     DeletedAt |-> None]

\* POST /api/user/builds: 401 without a user, 400 without components
SaveBuildCall(userID, req) ==
    /\ Len(builds) < MaxBuilds
    /\ IF userID = None \/ req.Components = None
       THEN builds' = builds
       ELSE LET components == [i \in 1..Len(req.Components[1]) |->
                                   BuildComponent(req.Components[1][i])]
            IN  builds' = Append(builds, Build(Len(builds) + 1, userID[1], req.Name, components))
    /\ UNCHANGED <<products, lastCall, outsideBackend>>

SaveBuild ==
    \E userID \in UserIDs : \E req \in SaveBuildRequests : SaveBuildCall(userID, req)

\* handlers.UpdateAnchorPointsRequest: AnchorPoints is None when the body has none
UpdateAnchorPointsRequests ==
    { [AnchorPoints |-> None],
      [AnchorPoints |-> Some(<<AnchorPoint("pcie_slot", <<"gpu">>)>>)] }

\* PATCH /api/admin/products/:id/anchors: 400 without anchor_points, 404 without the row
UpdatePartAnchorsCall(id, req) ==
    /\ IF req.AnchorPoints = None \/ ~Found(id)
       THEN products' = products
       ELSE products' = [products EXCEPT ![id].AnchorPoints = req.AnchorPoints[1]]
    /\ UNCHANGED <<lastCall, builds, outsideBackend>>

UpdatePartAnchors ==
    \E id \in 1..MaxProducts : \E req \in UpdateAnchorPointsRequests :
        UpdatePartAnchorsCall(id, req)

\* handlers.UpdatePartRequest and AdminUpdateProductRequest, by the columns the
\* model keeps: a field is None when the body does not provide it
UpdatePartRequest(Category, TechnicalSpecs, AnchorPoints) ==
    [Category |-> Category, TechnicalSpecs |-> TechnicalSpecs, AnchorPoints |-> AnchorPoints]

UpdatePartRequests ==
    { UpdatePartRequest(None, None, None),
      UpdatePartRequest(None, None, Some(<<>>)),
      UpdatePartRequest(Some("gpu"), Some(NoSpecs), Some(<<AnchorPoint("pcie_slot", <<"gpu">>)>>)) }

\* the updates map: the columns the request provides
ProvidedFields(req) == {f \in DOMAIN req : req[f] # None}

\* db.Model(&product).Updates(updates)
Updates(product, req) ==
    [f \in DOMAIN product |->
        IF f \in ProvidedFields(req) THEN req[f][1] ELSE product[f]]

\* PUT /api/admin/parts/:id: 404 without the row
UpdatePartCall(id, req) ==
    /\ IF ~Found(id)
       THEN products' = products
       ELSE products' = [products EXCEPT ![id] = Updates(products[id], req)]
    /\ UNCHANGED <<lastCall, builds, outsideBackend>>

UpdatePart ==
    \E id \in 1..MaxProducts : \E req \in UpdatePartRequests : UpdatePartCall(id, req)

\* PUT /api/admin/products/:id: 404 without the row, 400 without a field to update
UpdateAdminProductCall(id, req) ==
    /\ IF ~Found(id) \/ ProvidedFields(req) = {}
       THEN products' = products
       ELSE products' = [products EXCEPT ![id] = Updates(products[id], req)]
    /\ UNCHANGED <<lastCall, builds, outsideBackend>>

UpdateAdminProduct ==
    \E id \in 1..MaxProducts : \E req \in UpdatePartRequests : UpdateAdminProductCall(id, req)

\* DELETE /api/admin/parts/:id: db.Delete sets deleted_at, the row stays
DeletePartCall(id) ==
    /\ IF ~Found(id)
       THEN products' = products
       ELSE products' = [products EXCEPT ![id].DeletedAt = Some("now")]
    /\ UNCHANGED <<lastCall, builds, outsideBackend>>

DeletePart == \E id \in 1..MaxProducts : DeletePartCall(id)

\* the zero value of models.Product: what stands at an id whose row
\* Unscoped().Delete has removed, ids not being reused
NoProduct ==
    [ID |-> 0, SKU |-> "", Category |-> "", TechnicalSpecs |-> NoSpecs,
     AnchorPoints |-> <<>>, DeletedAt |-> None]

\* DELETE /api/admin/products/:id: the row is removed from the table
DeleteAdminProductCall(id) ==
    /\ IF ~Found(id)
       THEN products' = products
       ELSE products' = [products EXCEPT ![id] = NoProduct]
    /\ UNCHANGED <<lastCall, builds, outsideBackend>>

DeleteAdminProduct == \E id \in 1..MaxProducts : DeleteAdminProductCall(id)

\* a catalog of two products, as two calls of CreatePart leave it
CatalogRequests ==
    << CreatePartRequest("MB-1", "motherboard", [socket |-> StringValue("LGA1700")],
                         <<AnchorPoint("cpu_socket", <<"cpu", "LGA1700">>),
                           AnchorPoint("ram_slot_1", <<"ram", "DDR5">>)>>),
       CreatePartRequest("GPU-1", "gpu", NoSpecs, <<AnchorPoint("power", <<>>)>>) >>

InitBuilds ==
    /\ buildState = [s \in StepIds |-> None]
    /\ currentStepIndex = 0
    /\ products = [i \in 1..Len(CatalogRequests) |-> ProductRow(i, CatalogRequests[i])]
    /\ lastCall = None
    /\ currentBuildId = None
    /\ currentBuildName = None
    /\ anchors = <<>>
    /\ selectedAnchorId = None
    /\ uuidCount = 0
    /\ formAnchors = <<>>
    /\ persistedAnchors = None
    /\ builds = <<>>
    /\ InitDialog
    /\ InitSelector

\* the number of builds saved while the catalog is maintained
MaxSnapshots == 1

SaveFirstBuild == Len(builds) < MaxSnapshots /\ SaveBuild

NextBuilds ==
    \/ SaveFirstBuild
    \/ UpdatePartAnchors
    \/ UpdatePart
    \/ UpdateAdminProduct
    \/ DeletePart
    \/ DeleteAdminProduct

\* the catalog's administration and the saving of builds
SpecBuilds == InitBuilds /\ [][NextBuilds]_vars

\* ------------------------------------------------------------------------
\* Properties of saved builds
\* ------------------------------------------------------------------------

\* the anchor lists of the components of a stored build, in their order
StoredAnchors(build) == [i \in 1..Len(build.Components) |-> build.Components[i].AnchorPoints]

\* the anchor lists a save request supplies, in the order of its components
SuppliedAnchors(req) == [i \in 1..Len(req.Components[1]) |-> req.Components[1][i].AnchorPoints]

\* a product update, an anchor update or a product deletion of the catalog
CatalogChange ==
    UpdatePartAnchors \/ UpdatePart \/ UpdateAdminProduct \/ DeletePart \/ DeleteAdminProduct

\* C20: a saved build holds, for each component, the anchor list the save
\* request supplied, and no product update, anchor update or product deletion
\* of the catalog changes the anchor_points stored in a build's components.
C20_BuildSnapshot ==
    [][/\ \A userID \in UserIDs : \A req \in SaveBuildRequests :
              (SaveBuildCall(userID, req) /\ builds' # builds) =>
                  /\ Len(builds') = Len(builds) + 1
                  /\ StoredAnchors(builds'[Len(builds')]) = SuppliedAnchors(req)
       /\ CatalogChange =>
              /\ Len(builds') = Len(builds)
              /\ \A b \in 1..Len(builds) : StoredAnchors(builds'[b]) = StoredAnchors(builds[b])]_vars

\* a build is stored whose component holds anchors that its product, updated
\* or deleted since, no longer has
C20_Witness ==
    \E b \in 1..Len(builds) : \E i \in 1..Len(builds[b].Components) :
        LET component == builds[b].Components[i]
        IN  /\ component.AnchorPoints # <<>>
            /\ component.ID \in 1..Len(products)
            /\ products[component.ID].AnchorPoints # component.AnchorPoints

\* ------------------------------------------------------------------------
\* The builds of several users: GetUserBuilds, GetBuildDetails, UpdateBuild
\* and DeleteBuild of builds.go
\* ------------------------------------------------------------------------

\* the first row with the id, whoever owns it
BuildOfAnyUser(userID, id) ==
    IF id \in 1..Len(builds) /\ builds[id].DeletedAt = None THEN Some(builds[id]) ELSE None

\* db.Where("id = ? AND user_id = ?", id, userID).First(&build)
BuildOfUser(userID, id) ==
    IF /\ id \in 1..Len(builds)
       /\ builds[id].DeletedAt = None
       /\ builds[id].UserID = userID
    THEN Some(builds[id])
    ELSE None

\* a sequence in the opposite order
Reverse(seq) == [i \in 1..Len(seq) |-> seq[Len(seq) + 1 - i]]

\* db.Where("user_id = ?", userID).Order("created_at DESC").Find(&builds)
BuildsOfUser(userID) ==
    Reverse(SelectSeq(builds, LAMBDA b : b.DeletedAt = None /\ b.UserID = userID))

\* the response of a build handler that the model records
BuildResponse(op, userID, id, status, data) ==
    [op |-> op, userID |-> userID, id |-> id, status |-> status, data |-> data]

\* GET /api/user/builds
GetUserBuildsCall(userID) ==
    /\ lastCall' = Some(IF userID = None
                        THEN BuildResponse("GetUserBuilds", userID, 0, 401, <<>>)
                        ELSE BuildResponse("GetUserBuilds", userID, 0, 200, BuildsOfUser(userID[1])))
    /\ UNCHANGED <<products, builds, outsideBackend>>

GetUserBuilds == \E userID \in UserIDs : GetUserBuildsCall(userID)

\* GET /api/user/builds/:id
GetBuildDetailsCall(userID, id) ==
    /\ lastCall' = Some(IF userID = None
                        THEN BuildResponse("GetBuildDetails", userID, id, 401, <<>>)
                        ELSE IF BuildOfUser(userID[1], id) = None
                        THEN BuildResponse("GetBuildDetails", userID, id, 404, <<>>)
                        ELSE BuildResponse("GetBuildDetails", userID, id, 200,
                                           BuildOfUser(userID[1], id)))
    /\ UNCHANGED <<products, builds, outsideBackend>>

GetBuildDetails ==
    \E userID \in UserIDs : \E id \in 1..MaxBuilds : GetBuildDetailsCall(userID, id)

\* handlers.UpdateBuildRequest: a field is None when the body does not provide it
UpdateBuildRequest(Name, Components) == [Name |-> Name, Components |-> Components]

UpdateBuildRequests ==
    { UpdateBuildRequest(None, None),
      UpdateBuildRequest(Some("Renamed"), None),
      UpdateBuildRequest(None, Some(<<SaveBuildComponent(7, "cpu", NoSpecs, <<>>, 0)>>)) }

\* the build after db.Model(&build).Updates(updates)
UpdatedBuild(build, req) ==
    [build EXCEPT
        !.Name = IF req.Name # None THEN req.Name[1] ELSE @,
        !.Components = IF req.Components # None
                       THEN [i \in 1..Len(req.Components[1]) |->
                                BuildComponent(req.Components[1][i])]
                       ELSE @]

\* PUT /api/user/builds/:id
UpdateBuildCall(userID, id, req) ==
    /\ IF userID = None
       THEN /\ lastCall' = Some(BuildResponse("UpdateBuild", userID, id, 401, <<>>))
            /\ builds' = builds
       ELSE IF BuildOfUser(userID[1], id) = None
       THEN /\ lastCall' = Some(BuildResponse("UpdateBuild", userID, id, 404, <<>>))
            /\ builds' = builds
       ELSE /\ builds' = [builds EXCEPT ![id] = UpdatedBuild(BuildOfUser(userID[1], id)[1], req)]
            /\ lastCall' = Some(BuildResponse("UpdateBuild", userID, id, 200, <<builds'[id]>>))
    /\ UNCHANGED <<products, outsideBackend>>

UpdateBuild ==
    \E userID \in UserIDs : \E id \in 1..MaxBuilds : \E req \in UpdateBuildRequests :
        UpdateBuildCall(userID, id, req)

\* DELETE /api/user/builds/:id: db.Delete sets deleted_at, the row stays
DeleteBuildCall(userID, id) ==
    /\ IF userID = None
       THEN /\ lastCall' = Some(BuildResponse("DeleteBuild", userID, id, 401, <<>>))
            /\ builds' = builds
       ELSE IF BuildOfUser(userID[1], id) = None
       THEN /\ lastCall' = Some(BuildResponse("DeleteBuild", userID, id, 404, <<>>))
            /\ builds' = builds
       ELSE /\ builds' = [builds EXCEPT ![id].DeletedAt = Some("now")]
            /\ lastCall' = Some(BuildResponse("DeleteBuild", userID, id, 200, <<>>))
    /\ UNCHANGED <<products, outsideBackend>>

DeleteBuild ==
    \E userID \in UserIDs : \E id \in 1..MaxBuilds : DeleteBuildCall(userID, id)

\* a catalog of one product, as one call of CreatePart leaves it
InitOwners ==
    /\ buildState = [s \in StepIds |-> None]
    /\ currentStepIndex = 0
    /\ products = <<ProductRow(1, CatalogRequests[2])>>
    /\ lastCall = None
    /\ currentBuildId = None
    /\ currentBuildName = None
    /\ anchors = <<>>
    /\ selectedAnchorId = None
    /\ uuidCount = 0
    /\ formAnchors = <<>>
    /\ persistedAnchors = None
    /\ builds = <<>>
    /\ InitDialog
    /\ InitSelector

NextOwners ==
    \/ SaveBuild
    \/ GetUserBuilds
    \/ GetBuildDetails
    \/ UpdateBuild
    \/ DeleteBuild

\* the build operations of the users
SpecOwners == InitOwners /\ [][NextOwners]_vars

\* ------------------------------------------------------------------------
\* Properties of the builds of several users
\* ------------------------------------------------------------------------

Users == {userID[1] : userID \in UserIDs \ {None}}

\* the build with the id exists, deleted or not, and belongs to another user
OwnedByAnother(user, id) == id \in 1..Len(builds) /\ builds[id].UserID # user

\* C21: GetUserBuilds returns only builds whose user_id is the caller's, and
\* GetBuildDetails, UpdateBuild and DeleteBuild on a build owned by another
\* user answer 404 and leave that build, and every other, unchanged.
C21_OwnerIsolation ==
    [][\A user \in Users :
          /\ GetUserBuildsCall(Some(user)) =>
                 \A i \in 1..Len(lastCall'[1].data) : lastCall'[1].data[i].UserID = user
          /\ \A id \in 1..MaxBuilds :
                 OwnedByAnother(user, id) =>
                     /\ GetBuildDetailsCall(Some(user), id) =>
                            lastCall'[1].status = 404 /\ builds' = builds
                     /\ DeleteBuildCall(Some(user), id) =>
                            lastCall'[1].status = 404 /\ builds' = builds
                     /\ \A req \in UpdateBuildRequests :
                            UpdateBuildCall(Some(user), id, req) =>
                                lastCall'[1].status = 404 /\ builds' = builds]_vars

\* two users own a build each, and the last call is one user's update or
\* deletion of the other's build
C21_Witness ==
    /\ Len(builds) = 2
    /\ builds[1].UserID # builds[2].UserID
    /\ builds[1].DeletedAt = None /\ builds[2].DeletedAt = None
    /\ lastCall # None
    /\ lastCall[1].op \in {"UpdateBuild", "DeleteBuild"}
    /\ lastCall[1].userID # None
    /\ lastCall[1].id \in 1..2
    /\ builds[lastCall[1].id].UserID # lastCall[1].userID[1]

\* ------------------------------------------------------------------------
\* The admin routes: middleware.ClerkAuthMiddleware and middleware.RequireAdmin
\* in front of the handlers of the products table
\* ------------------------------------------------------------------------

RoleOrgAdmin == "org:admin"

RoleOrgMember == "org:member"

\* strings.ToLower, on the schemes of the Authorization headers
ToLower(string) ==
    CASE string = "Bearer" -> "bearer"
      [] string = "Basic" -> "basic"
      [] OTHER -> string

\* jwt.Verify: the claims of the tokens Clerk has signed, None for any other token
VerifiedClaims(token) ==
    CASE token = "jwt-admin" ->
             Some([Subject |-> "user_a", ActiveOrganizationRole |-> "org:admin"])
      [] token = "jwt-viewer" ->
             Some([Subject |-> "user_v", ActiveOrganizationRole |-> "org:viewer"])
      [] token = "jwt-plain" ->
             Some([Subject |-> "user_p", ActiveOrganizationRole |-> ""])
      [] OTHER -> None

\* the user id and the role a middleware function returns
Identity(userID, role) == [userID |-> userID, role |-> role]

\* a request by its headers, Authorization split at its blanks, and the
\* configuration it meets: Clerk configured or not, ALLOW_DEV_AUTH set or not
Request(clerkEnabled, allowDevAuth, XClerkUserID, Authorization) ==
    [clerkEnabled |-> clerkEnabled, allowDevAuth |-> allowDevAuth,
     XClerkUserID |-> XClerkUserID, Authorization |-> Authorization]

\* requests of every kind: without credentials, with the development headers,
\* with tokens of the three roles, with a malformed Authorization header
Requests ==
    { Request(FALSE, FALSE, "", <<>>),
      Request(FALSE, FALSE, "admin", <<"Basic", "admin">>),
      Request(FALSE, TRUE, "", <<"bearer", "admin-user-001">>),
      Request(TRUE, FALSE, "admin", <<>>),
      Request(TRUE, FALSE, "", <<"Bearer", "jwt-admin">>),
      Request(TRUE, FALSE, "", <<"Bearer", "jwt-viewer">>),
      Request(TRUE, TRUE, "", <<"Bearer", "jwt-plain">>),
      Request(TRUE, TRUE, "user-1", <<"Bearer", "admin", "x">>) }

verifyClerkToken(request) ==
    LET parts == request.Authorization
    IN  IF parts = <<>> THEN Identity("", "")
        ELSE IF Len(parts) # 2 \/ ToLower(parts[1]) # "bearer" THEN Identity("", "")
        ELSE LET claims == VerifiedClaims(parts[2])
             IN  IF claims = None THEN Identity("", "")
                 ELSE Identity(claims[1].Subject,
                               IF claims[1].ActiveOrganizationRole # ""
                               THEN claims[1].ActiveOrganizationRole
                               ELSE RoleOrgMember)

getUserRole(userID) ==
    IF userID \in {"admin-user-001", "admin"} THEN RoleOrgAdmin ELSE RoleOrgMember

getDevModeAuth(request) ==
    LET parts == request.Authorization
        fromHeaders == IF request.XClerkUserID # "" THEN request.XClerkUserID
                       ELSE IF parts # <<>> /\ Len(parts) = 2 /\ ToLower(parts[1]) = "bearer"
                       THEN parts[2]
                       ELSE ""
        userID == IF fromHeaders = "" THEN "test-user-001" ELSE fromHeaders
    IN  Identity(userID, getUserRole(userID))

\* the gin context without a key
NoContext == <<>>

\* the context after ClerkAuthMiddleware, None when it aborts with 401
ClerkAuthMiddleware(request) ==
    LET verified == verifyClerkToken(request)
        identity == IF request.clerkEnabled
                    THEN IF verified.userID = "" /\ request.allowDevAuth
                         THEN getDevModeAuth(request)
                         ELSE verified
                    ELSE getDevModeAuth(request)
    IN  IF identity.userID = "" THEN None
        ELSE Some([userID |-> identity.userID, userRole |-> identity.role])

\* a RequireAdmin that lets every authenticated role pass
RequireAnyRole(context) ==
    IF "userRole" \notin DOMAIN context THEN 401 ELSE 200

\* the status RequireAdmin aborts with, 200 when it calls c.Next()
RequireAdmin(context) ==
    IF "userRole" \notin DOMAIN context THEN 401
    ELSE IF context.userRole # RoleOrgAdmin THEN 403
    ELSE 200

\* the status the two middlewares of the admin group answer, 200 when the handler runs
AdminGroupStatus(request) ==
    LET context == ClerkAuthMiddleware(request)
    IN  IF context = None THEN 401 ELSE RequireAdmin(context[1])

\* the role the request resolves to, None when none is set
ResolvedRole(request) ==
    LET context == ClerkAuthMiddleware(request)
    IN  IF context = None THEN None ELSE Some(context[1].userRole)

Aborted(status) == [op |-> "AbortWithStatusJSON", status |-> status]

\* a route of the admin group: the handler runs unless a middleware aborts
AdminRoute(request, Handler) ==
    IF AdminGroupStatus(request) # 200
    THEN /\ lastCall' = Some(Aborted(AdminGroupStatus(request)))
         /\ UNCHANGED <<products, builds, outsideBackend>>
    ELSE Handler

\* POST /api/admin/products and /api/admin/parts
PostAdminProducts(request) == AdminRoute(request, CreatePart)

\* PUT /api/admin/products/:id
PutAdminProducts(request) == AdminRoute(request, UpdateAdminProduct)

\* PATCH /api/admin/products/:id/anchors and /api/admin/parts/:id/anchors
PatchAdminProductsAnchors(request) == AdminRoute(request, UpdatePartAnchors)

\* DELETE /api/admin/products/:id
DeleteAdminProducts(request) == AdminRoute(request, DeleteAdminProduct)

\* PUT /api/admin/parts/:id
PutAdminParts(request) == AdminRoute(request, UpdatePart)

\* DELETE /api/admin/parts/:id
DeleteAdminParts(request) == AdminRoute(request, DeletePart)

\* a request to a route of the admin group that writes the products table
AdminRequest(request) ==
    \/ PostAdminProducts(request)
    \/ PutAdminProducts(request)
    \/ PatchAdminProductsAnchors(request)
    \/ DeleteAdminProducts(request)
    \/ PutAdminParts(request)
    \/ DeleteAdminParts(request)

PostAdminProductsRoute == \E request \in Requests : PostAdminProducts(request)

PutAdminProductsRoute == \E request \in Requests : PutAdminProducts(request)

PatchAdminProductsAnchorsRoute == \E request \in Requests : PatchAdminProductsAnchors(request)

DeleteAdminProductsRoute == \E request \in Requests : DeleteAdminProducts(request)

PutAdminPartsRoute == \E request \in Requests : PutAdminParts(request)

DeleteAdminPartsRoute == \E request \in Requests : DeleteAdminParts(request)

NextAdmin ==
    \/ PostAdminProductsRoute
    \/ PutAdminProductsRoute
    \/ PatchAdminProductsAnchorsRoute
    \/ DeleteAdminProductsRoute
    \/ PutAdminPartsRoute
    \/ DeleteAdminPartsRoute

\* a catalog after two calls of CreatePart and the removal of the second product
InitAdmin ==
    /\ buildState = [s \in StepIds |-> None]
    /\ currentStepIndex = 0
    /\ products = <<ProductRow(1, CatalogRequests[2]), NoProduct>>
    /\ lastCall = None
    /\ currentBuildId = None
    /\ currentBuildName = None
    /\ anchors = <<>>
    /\ selectedAnchorId = None
    /\ uuidCount = 0
    /\ formAnchors = <<>>
    /\ persistedAnchors = None
    /\ builds = <<>>
    /\ InitDialog
    /\ InitSelector

\* the requests to the admin routes of the catalog
SpecAdmin == InitAdmin /\ [][NextAdmin]_vars

\* ------------------------------------------------------------------------
\* Properties of the admin routes
\* ------------------------------------------------------------------------

\* the handlers of the admin routes that write the products table
AdminHandler ==
    \/ CreatePart
    \/ UpdateAdminProduct
    \/ UpdatePartAnchors
    \/ DeleteAdminProduct
    \/ UpdatePart
    \/ DeletePart

\* C22: on every admin route a request whose resolved role is not org:admin is
\* rejected before the handler runs, with 401 when no role is set and 403 for
\* any other role, and the products table stays as it was; a request whose
\* role is org:admin reaches the handler.
C22_AdminOnly ==
    [][\A request \in Requests :
          AdminRequest(request) =>
              IF ResolvedRole(request) = None
              THEN lastCall' = Some(Aborted(401)) /\ products' = products
              ELSE IF ResolvedRole(request)[1] # RoleOrgAdmin
              THEN lastCall' = Some(Aborted(403)) /\ products' = products
              ELSE AdminHandler]_vars

\* an administrator has added a product to the catalog, and the last request,
\* of another role, was answered 403
C22_Witness ==
    /\ \E i \in 1..Len(products) : products[i].SKU = "CPU-1"
    /\ lastCall = Some(Aborted(403))

\* ------------------------------------------------------------------------
\* Properties of the deletion of a product
\* ------------------------------------------------------------------------

\* testDB.Unscoped().First(&deletedProduct, id): the row, deleted or not, and
\* the zero value when the table holds none
UnscopedFirst(id) == IF id \in 1..Len(products) THEN products[id] ELSE NoProduct

\* C23: DELETE /api/admin/products/:id on an existing product is a soft
\* delete: afterwards a normal query does not see the product, an unscoped
\* query still finds its record, and the record has DeletedAt set.
C23_SoftDelete ==
    [][\A id \in 1..MaxProducts :
          (Found(id) /\ DeleteAdminProductCall(id)) =>
              /\ ~Found(id)'
              /\ UnscopedFirst(id)'.ID = id
              /\ UnscopedFirst(id)'.DeletedAt # None]_vars

\* ------------------------------------------------------------------------
\* Properties of the components of a save request
\* ------------------------------------------------------------------------

\* some component of the request refers to a product id the catalog does not hold
RefersToMissingProduct(req) ==
    /\ req.Components # None
    /\ \E i \in 1..Len(req.Components[1]) : ~Found(req.Components[1][i].ID)

\* C24: SaveBuild rejects a request whose component refers to a product id
\* that does not exist in the catalog, and creates no build record for it.
C24_RejectsUnknownProduct ==
    [][\A userID \in UserIDs : \A req \in SaveBuildRequests :
          (SaveBuildCall(userID, req) /\ RefersToMissingProduct(req)) =>
              builds' = builds]_vars

\* ------------------------------------------------------------------------
\* Properties of the RAM quantity selector
\* ------------------------------------------------------------------------

\* the number of ram_slot anchors of the selected motherboard, the type of a
\* persisted anchor being its name; 0 without a motherboard or without anchors
SelectedRamSlotCount ==
    IF buildState["motherboard"] = None \/ buildState["motherboard"][1].anchor_points = None
    THEN 0
    ELSE LET persisted == buildState["motherboard"][1].anchor_points[1]
         IN  Cardinality({i \in 1..Len(persisted) : persisted[i].name = "ram_slot"})

\* C25: the RAM quantity limit passed to the selector is the number of
\* ram_slot anchors of the selected motherboard, and 4 only when no
\* motherboard is selected or it has no ram_slot anchor; the quantity of the
\* selected RAM stays between 1 and that limit.
C25_RamQuantityLimit ==
    /\ getMaxRamSlots = (IF SelectedRamSlotCount = 0 THEN 4 ELSE SelectedRamSlotCount)
    /\ buildState["ram"] # None =>
           /\ 1 <= QuantityOf(buildState["ram"][1])
           /\ QuantityOf(buildState["ram"][1]) <= getMaxRamSlots

\* ------------------------------------------------------------------------
\* Properties of the selection of the anchor store
\* ------------------------------------------------------------------------

\* the selection is none or the id of an anchor of the list
SelectionInList == selectedAnchorId = None \/ selectedAnchorId[1] \in AnchorIds

\* C26: in every reachable state of the store selectedAnchorId is null or the
\* id of an anchor currently in the list; removing the selected anchor sets
\* the selection to none and removing any other anchor leaves it as it was.
\* The store starts with no selection, so the first half is stated of the
\* state every step leads to.
C26_SelectionInList ==
    [][/\ SelectionInList'
       /\ \A id \in CallIds :
              removeAnchorCall(id) =>
                  selectedAnchorId' = IF selectedAnchorId = Some(id) THEN None
                                      ELSE selectedAnchorId]_vars

\* an anchor is selected and in the list, after the removal of an anchor
\* that was created later
C26_Witness ==
    /\ selectedAnchorId # None
    /\ selectedAnchorId[1] \in AnchorIds
    /\ \E k \in 1..uuidCount : uuidv4(k) \notin AnchorIds /\ selectedAnchorId[1] = uuidv4(k - 1)

\* ------------------------------------------------------------------------
\* Properties of the generated labels
\* ------------------------------------------------------------------------

\* addAnchor(type) as the type picker of the editor calls it, without a label
addAnchorOfType == \E type \in AddTypes : addAnchorCall(type, None)

NextLabels ==
    \/ addAnchorOfType
    \/ duplicateAnchor
    \/ removeAnchor

\* an editing session that starts from the empty store and only adds anchors
\* without a label, duplicates and removes
SpecLabels == Init /\ [][NextLabels]_vars

OtherStepsKept(stepId) == \A s \in StepIds \ {stepId} : buildState'[s] = buildState[s]

\* C28: selecting a part and removing a part change only the entry of the
\* current step, and changing the RAM quantity only the entry of the RAM
\* step: every other step's part stays exactly as it was, also a part the
\* newly chosen parent is incompatible with.
C28_OnlyTargetStep ==
    [][/\ handleSelectComponent => OtherStepsKept(currentStep.id)
       /\ handleRemoveComponent => OtherStepsKept(currentStep.id)
       /\ handleUpdateRamQuantity => OtherStepsKept("ram")]_vars

\* a CPU stays selected under a motherboard of another socket
C28_Witness ==
    /\ buildState["motherboard"] # None
    /\ buildState["cpu"] # None
    /\ LET moboSocket == GetProp(buildState["motherboard"][1].technical_specs, "socket")
           cpuSocket == GetProp(buildState["cpu"][1].technical_specs, "socket")
       IN  /\ Truthy(moboSocket)
           /\ Truthy(cpuSocket)
           /\ ~StrictEqual(moboSocket, cpuSocket)


\* ------------------------------------------------------------------------
\* The save dialog: SaveBuildDialog
\* ------------------------------------------------------------------------

\* the largest number of save requests in flight at once
MaxSaveRequests == 2

\* the texts typed into the name field
Names == {"", " ", "My PC"}

\* String.prototype.trim on the texts of Names
Trim(text) == IF text = " " THEN "" ELSE text

\* the user the proxy authenticates the session's requests as
SessionUser == "user-1"

\* the steps of BUILD_STEPS that hold a component, in step order
FilledSteps == SelectSeq(BUILD_STEPS, LAMBDA step : buildState[step.id] # None)

\* the components handleSave sends: c.anchor_points || [] and c.quantity || 1; the id is
\* the product's id, which parseInt reads back from its string
SaveComponents ==
    [i \in 1..Len(FilledSteps) |->
        LET c == buildState[FilledSteps[i].id][1]
        IN  SaveBuildComponent(c.id, c.category, c.technical_specs,
                               IF c.anchor_points = None THEN <<>> ELSE c.anchor_points[1],
                               IF c.quantity = None \/ c.quantity = Some(0) THEN 1
                               ELSE c.quantity[1])]

\* the fetch of handleSave: PUT /api/builds/:id for an update, POST /api/builds otherwise
SaveRequest(method, id, buildName, components) ==
    [method |-> method, id |-> id, name |-> buildName, components |-> components]

completedCount == Cardinality({id \in StepIds : buildState[id] # None})

\* the Save button of the summary, disabled while no step is filled
openSaveDialog ==
    /\ completedCount # 0
    /\ ~saveDialogOpen
    /\ saveDialogOpen' = TRUE
    /\ UNCHANGED <<name, saving, saveRequests, builderVars, backendVars, storeVars, formVars,
                   selectorVars>>

\* onChange of the name field
setName ==
    /\ saveDialogOpen
    /\ \E text \in Names : text # name /\ name' = text
    /\ UNCHANGED <<saveDialogOpen, saving, saveRequests, builderVars, backendVars, storeVars,
                   formVars, selectorVars>>

\* handleSave up to its await: the two early returns, then setSaving(true) and the fetch
handleSave(saveAsNew) ==
    /\ Len(saveRequests) < MaxSaveRequests
    /\ IF Trim(name) = "" \/ Len(SaveComponents) = 0
       THEN UNCHANGED <<saving, saveRequests>>
       ELSE LET isUpdate == currentBuildId # None /\ ~saveAsNew
            IN  /\ saving' = TRUE
                /\ saveRequests' =
                       Append(saveRequests,
                              IF isUpdate
                              THEN SaveRequest("PUT", currentBuildId, Trim(name), SaveComponents)
                              ELSE SaveRequest("POST", None, Trim(name), SaveComponents))
    /\ UNCHANGED <<saveDialogOpen, name, builderVars, backendVars, storeVars, formVars,
                   selectorVars>>

\* the Save / Update button, disabled while saving
clickSave == saveDialogOpen /\ ~saving /\ handleSave(FALSE)

\* the Save as New button, shown for a saved build and disabled while saving
clickSaveAsNew == saveDialogOpen /\ currentBuildId # None /\ ~saving /\ handleSave(TRUE)

\* onKeyDown of the name field: Enter
pressEnter == saveDialogOpen /\ handleSave(FALSE)

\* a sequence without its i-th element
RemoveAt(seq, i) == [j \in 1..(Len(seq) - 1) |-> IF j < i THEN seq[j] ELSE seq[j + 1]]

\* the rest of handleSave: the backend serves the request, then onSaveSuccess and
\* onOpenChange(false) on an ok response, setSaving(false) in either case
saveResponse ==
    \E i \in 1..Len(saveRequests) :
        LET request == saveRequests[i]
            components == [k \in 1..Len(request.components) |->
                              BuildComponent(request.components[k])]
            saved(id) ==
                /\ currentBuildId' = Some(id)
                /\ currentBuildName' = Some(request.name)
                /\ saveDialogOpen' = FALSE
        IN  /\ saveRequests' = RemoveAt(saveRequests, i)
            /\ saving' = FALSE
            /\ IF request.method = "POST"
               THEN /\ Len(builds) < MaxBuilds
                    /\ builds' = Append(builds, Build(Len(builds) + 1, SessionUser,
                                                      request.name, components))
                    /\ saved(Len(builds) + 1)
               ELSE IF BuildOfUser(SessionUser, request.id[1]) = None
               THEN UNCHANGED <<builds, currentBuildId, currentBuildName, saveDialogOpen>>
               ELSE /\ builds' = [builds EXCEPT ![request.id[1]] =
                                     UpdatedBuild(@, UpdateBuildRequest(Some(request.name),
                                                                        Some(request.components)))]
                    /\ saved(request.id[1])
            /\ UNCHANGED <<name, buildState, currentStepIndex, products, lastCall, storeVars,
                           formVars, selectorVars>>

\* a session with its first part chosen
InitSave ==
    /\ buildState = [s \in StepIds |->
                        IF s = "case"
                        THEN Some(SelectedComponent(CHOOSE p \in ProductsOf("CASE") : TRUE, "CASE"))
                        ELSE None]
    /\ currentStepIndex = 0
    /\ products = <<>>
    /\ lastCall = None
    /\ currentBuildId = None
    /\ currentBuildName = None
    /\ anchors = <<>>
    /\ selectedAnchorId = None
    /\ uuidCount = 0
    /\ formAnchors = <<>>
    /\ persistedAnchors = None
    /\ builds = <<>>
    /\ InitDialog
    /\ InitSelector

NextSave ==
    \/ openSaveDialog
    \/ setName
    \/ clickSave
    \/ clickSaveAsNew
    \/ pressEnter
    \/ saveResponse
    \/ handleNewBuild

SpecSave == InitSave /\ [][NextSave]_vars

\* C29: while a save request of the dialog is in flight no second one is started, so at
\* most one save request is in flight at any time
C29_OneSaveInFlight == Len(saveRequests) <= 1


\* ------------------------------------------------------------------------
\* The candidate list: ComponentSelector
\* ------------------------------------------------------------------------

\* the largest number of product fetches in flight at once
MaxFetches == 2

\* the index of the last build step the user visits
MaxVisitedStep == 1

\* the effect on [currentStep.category] has to run: at the mount, and after a render in
\* which the current step's category differs from the one of its last run
effectPending == fetchedCategory # Some(currentStep.category)

\* the fetchProducts effect up to its await: setLoading(true) and the fetch
fetchProducts ==
    /\ effectPending
    /\ Len(fetches) < MaxFetches
    /\ loading' = TRUE
    /\ fetches' = Append(fetches, currentStep.category)
    /\ fetchedCategory' = Some(currentStep.category)
    /\ UNCHANGED <<selectorProducts, builderVars, backendVars, storeVars, formVars, dialogVars>>

\* the rest of fetchProducts, for any of the fetches in flight: setProducts(data.data)
\* and setLoading(false)
fetchResponse ==
    /\ ~effectPending
    /\ \E i \in 1..Len(fetches) :
           /\ selectorProducts' = ProductsOf(fetches[i])
           /\ loading' = FALSE
           /\ fetches' = RemoveAt(fetches, i)
    /\ UNCHANGED <<fetchedCategory, builderVars, backendVars, storeVars, formVars, dialogVars>>

\* the candidates rendered: none while loading
ShownProducts == IF loading THEN {} ELSE selectorProducts

\* a click on a candidate of the list
onSelect ==
    /\ ~effectPending
    /\ \E product \in ShownProducts :
           handleSelectComponentCall(SelectedComponent(product, currentStep.category))
    /\ UNCHANGED outsideBuilder

\* the navigation between the steps visited, once the effect of the last render has run
visitStep ==
    /\ ~effectPending
    /\ \/ handleNext
       \/ handlePrevious
       \/ setCurrentStepIndex
    /\ currentStepIndex' <= MaxVisitedStep

NextFetch ==
    \/ fetchProducts
    \/ fetchResponse
    \/ onSelect
    \/ visitStep

SpecFetch == Init /\ [][NextFetch]_vars

\* every candidate shown belongs to the current step's category
ListOfCurrentStep ==
    ~effectPending => \A product \in ShownProducts : product.category = currentStep.category

\* every part stored under a build step has that step's category
PartsOfTheirStep ==
    \A i \in 1..Len(BUILD_STEPS) :
        buildState[BUILD_STEPS[i].id] # None =>
            buildState[BUILD_STEPS[i].id][1].category = BUILD_STEPS[i].category

\* C30: the candidate list shown for the current step only holds products of that step's
\* category, also when a response arrives after a step change, and so does the part
\* stored under each step
C30_ListOfCurrentStep == ListOfCurrentStep /\ PartsOfTheirStep

====
